---------------------------- MODULE Spec2Model ----------------------------
(***************************************************************************)
(* Evidence extraction and reconciliation of the travelcheck backend:      *)
(* the OCR stamp pipeline (ocr_service.py), the candidate validator, the   *)
(* flight-confirmation email parser (email_service.py), the reconciliation *)
(* engine and the Firestore travel-entry store (firestore_models.py).      *)
(*                                                                         *)
(* Strings are sequences of one-character strings, so that the regular     *)
(* expressions and the date formats of the source are computed character   *)
(* by character.  An Optional value is <<>> (None) or <<v>>.               *)
(***************************************************************************)
EXTENDS Integers, Sequences, FiniteSets, TLC

(***************************************************************************)
(* Characters and Python's str methods                                     *)
(***************************************************************************)
None == <<>>

\* F(v) with v evaluated once, before F is applied (a strict LET)
Strict(v, F(_)) == CHOOSE r \in {F(x) : x \in {v}} : TRUE

Some(v) == <<v>>

UpperSeq ==
    <<"A","B","C","D","E","F","G","H","I","J","K","L","M",
      "N","O","P","Q","R","S","T","U","V","W","X","Y","Z">>

LowerSeq ==
    <<"a","b","c","d","e","f","g","h","i","j","k","l","m",
      "n","o","p","q","r","s","t","u","v","w","x","y","z">>

DigitSeq == <<"0","1","2","3","4","5","6","7","8","9">>

Range(f) == {f[i] : i \in DOMAIN f}

Upper == Range(UpperSeq)

Lower == Range(LowerSeq)

Digits == Range(DigitSeq)

Whitespace == {" ", "\t", "\n"}

IndexIn(seq, c) == CHOOSE i \in DOMAIN seq : seq[i] = c

char_upper(c) == IF c \in Lower THEN UpperSeq[IndexIn(LowerSeq, c)] ELSE c

char_lower(c) == IF c \in Upper THEN LowerSeq[IndexIn(UpperSeq, c)] ELSE c

IsAlpha(c) == c \in Upper \/ c \in Lower

DigitVal(c) == IndexIn(DigitSeq, c) - 1

\* str.upper()
str_upper(s) == [i \in 1..Len(s) |-> char_upper(s[i])]

\* str.lower()
str_lower(s) == [i \in 1..Len(s) |-> char_lower(s[i])]

\* str.title(): a cased character is upper-cased after an uncased one (or at
\* the start) and lower-cased after a cased one.
str_title(s) ==
    [i \in 1..Len(s) |->
        IF i > 1 /\ IsAlpha(s[i-1]) THEN char_lower(s[i]) ELSE char_upper(s[i])]

\* str.strip()
str_strip(s) ==
    LET keep == {i \in 1..Len(s) : s[i] \notin Whitespace}
    IN  IF keep = {} THEN <<>>
        ELSE LET lo == CHOOSE i \in keep : \A j \in keep : i <= j
                 hi == CHOOSE i \in keep : \A j \in keep : i >= j
             IN  SubSeq(s, lo, hi)

\* the Python test  sub in s
Contains(s, sub) ==
    Strict(s, LAMBDA t :
        \E i \in 1..(Len(t) - Len(sub) + 1) :
            SubSeq(t, i, i + Len(sub) - 1) = sub)

\* s starts with word at position i; ic: re.IGNORECASE
LiteralAt(s, i, word, ic) ==
    /\ i + Len(word) - 1 <= Len(s)
    /\ LET got == SubSeq(s, i, i + Len(word) - 1)
       IN  IF ic THEN str_upper(got) = str_upper(word) ELSE got = word

DigitAt(s, i) == i >= 1 /\ i <= Len(s) /\ s[i] \in Digits

\* [A-Z] at position i; with re.IGNORECASE also [a-z]
UpperAt(s, i, ic) ==
    i >= 1 /\ i <= Len(s) /\ (s[i] \in Upper \/ (ic /\ s[i] \in Lower))

LowerAt(s, i) == i >= 1 /\ i <= Len(s) /\ s[i] \in Lower

SpaceAt(s, i) == i >= 1 /\ i <= Len(s) /\ s[i] \in Whitespace

\* the number of consecutive positions from i on that satisfy a character
\* class, at most max
RECURSIVE DigitRun(_, _, _)
DigitRun(s, i, max) ==
    IF max > 0 /\ DigitAt(s, i) THEN 1 + DigitRun(s, i + 1, max - 1) ELSE 0

RECURSIVE LowerRun(_, _)
LowerRun(s, i) == IF LowerAt(s, i) THEN 1 + LowerRun(s, i + 1) ELSE 0

RECURSIVE SpaceRun(_, _)
SpaceRun(s, i) == IF SpaceAt(s, i) THEN 1 + SpaceRun(s, i + 1) ELSE 0

(***************************************************************************)
(* The regular expressions of the source.  XxxEnd(s, i) is the position    *)
(* just after the match of the pattern that starts at position i of s, as  *)
(* Python's backtracking matcher finds it (greedy quantifiers), or 0 when  *)
(* the pattern does not match at i.                                        *)
(***************************************************************************)
\* patterns['country'], its alternatives in the order of the regular expression
CountryAlternatives ==
    << <<"U","N","I","T","E","D"," ","S","T","A","T","E","S">>,
       <<"C","A","N","A","D","A">>,
       <<"M","E","X","I","C","O">>,
       <<"U","N","I","T","E","D"," ","K","I","N","G","D","O","M">>,
       <<"F","R","A","N","C","E">>,
       <<"G","E","R","M","A","N","Y">>,
       <<"I","T","A","L","Y">>,
       <<"S","P","A","I","N">>,
       <<"J","A","P","A","N">>,
       <<"C","H","I","N","A">>,
       <<"A","U","S","T","R","A","L","I","A">> >>

\* patterns['airline']
AirlineAlternatives ==
    << <<"A","m","e","r","i","c","a","n">>,
       <<"D","e","l","t","a">>,
       <<"U","n","i","t","e","d">>,
       <<"S","o","u","t","h","w","e","s","t">>,
       <<"J","e","t","B","l","u","e">>,
       <<"A","l","a","s","k","a">>,
       <<"S","p","i","r","i","t">>,
       <<"F","r","o","n","t","i","e","r">> >>

\* confirmation_keywords
confirmation_keywords ==
    << <<"f","l","i","g","h","t"," ","c","o","n","f","i","r","m","a","t","i","o","n">>,
       <<"b","o","o","k","i","n","g"," ","c","o","n","f","i","r","m","a","t","i","o","n">>,
       <<"i","t","i","n","e","r","a","r","y">>,
       <<"f","l","i","g","h","t"," ","d","e","t","a","i","l","s">>,
       <<"t","i","c","k","e","t"," ","c","o","n","f","i","r","m","a","t","i","o","n">>,
       <<"b","o","a","r","d","i","n","g"," ","p","a","s","s">> >>

W_ENTRY == <<"E","N","T","R","Y">>

W_ARRIVAL == <<"A","R","R","I","V","A","L">>

W_EXIT == <<"E","X","I","T">>

W_DEPARTURE == <<"D","E","P","A","R","T","U","R","E">>

W_AM == <<"A","M">>

W_PM == <<"P","M">>

SepAt(s, i) == i >= 1 /\ i <= Len(s) /\ s[i] \in {"/", "-"}

\* (\d{1,2}[/-]\d{1,2}[/-]\d{2,4})
DateEnd(s, i) ==
    LET a == DigitRun(s, i, 2)
        j == i + a + 1
        b == DigitRun(s, j, 2)
        k == j + b + 1
        c == DigitRun(s, k, 4)
    IN  IF /\ a >= 1 /\ SepAt(s, i + a)
           /\ b >= 1 /\ SepAt(s, j + b)
           /\ c >= 2
        THEN k + c ELSE 0

RECURSIVE UpperRun(_, _, _, _)
UpperRun(s, i, max, ic) ==
    IF max > 0 /\ UpperAt(s, i, ic)
    THEN 1 + UpperRun(s, i + 1, max - 1, ic) ELSE 0

\* ([A-Z]{3})
AirportEnd(s, i, ic) == IF UpperRun(s, i, 3, ic) = 3 THEN i + 3 ELSE 0

\* the first alternative of alts that matches at i, as the position after it
RECURSIVE AlternativeEnd(_, _, _, _, _)
AlternativeEnd(alts, n, s, i, ic) ==
    IF n > Len(alts) THEN 0
    ELSE IF LiteralAt(s, i, alts[n], ic) THEN i + Len(alts[n])
    ELSE AlternativeEnd(alts, n + 1, s, i, ic)

\* (UNITED STATES|CANADA|...|AUSTRALIA)
CountryEnd(s, i, ic) == AlternativeEnd(CountryAlternatives, 1, s, i, ic)

\* (American|Delta|...|Frontier)
AirlineEnd(s, i, ic) == AlternativeEnd(AirlineAlternatives, 1, s, i, ic)

\* (?:\s+[A-Z][a-z]+)* from position e on
RECURSIVE CityTail(_, _)
CityTail(s, e) ==
    LET sp == SpaceRun(s, e)
        lo == LowerRun(s, e + sp + 1)
    IN  IF sp >= 1 /\ UpperAt(s, e + sp, FALSE) /\ lo >= 1
        THEN CityTail(s, e + sp + 1 + lo) ELSE e

\* ([A-Z][a-z]+(?:\s+[A-Z][a-z]+)*)
CityEnd(s, i) ==
    LET lo == LowerRun(s, i + 1)
    IN  IF UpperAt(s, i, FALSE) /\ lo >= 1 THEN CityTail(s, i + 1 + lo) ELSE 0

\* ([A-Z]{2,3}\s?\d{3,4})
FlightNumberEnd(s, i, ic) ==
    LET l == UpperRun(s, i, 3, ic)
        j == IF SpaceAt(s, i + l) THEN i + l + 1 ELSE i + l
        d == DigitRun(s, j, 4)
    IN  IF l >= 2 /\ d >= 3 THEN j + d ELSE 0

\* (\d{1,2}:\d{2}\s?(?:AM|PM)?)
TimeEnd(s, i, ic) ==
    LET a == DigitRun(s, i, 2)
        p == i + a + 3
        q == IF SpaceAt(s, p) THEN p + 1 ELSE p
    IN  IF /\ a >= 1 /\ i + a <= Len(s) /\ s[i + a] = ":"
           /\ DigitRun(s, i + a + 1, 2) = 2
        THEN IF LiteralAt(s, q, W_AM, ic) \/ LiteralAt(s, q, W_PM, ic)
             THEN q + 2 ELSE q
        ELSE 0

MatchEnd(p, s, i, ic) ==
    CASE p = "date" -> DateEnd(s, i)
      [] p = "airport_code" -> AirportEnd(s, i, ic)
      [] p = "country" -> CountryEnd(s, i, ic)
      [] p = "city" -> CityEnd(s, i)
      [] p = "flight_number" -> FlightNumberEnd(s, i, ic)
      [] p = "departure_date" -> DateEnd(s, i)
      [] p = "departure_time" -> TimeEnd(s, i, ic)
      [] p = "airline" -> AirlineEnd(s, i, ic)

\* re.findall(pattern, s): the non-overlapping matches, left to right
RECURSIVE FindAllFrom(_, _, _, _)
FindAllFrom(p, s, i, ic) ==
    IF i > Len(s) THEN <<>>
    ELSE Strict(MatchEnd(p, s, i, ic),
                LAMBDA e :
                  IF e > 0
                  THEN <<SubSeq(s, i, e - 1)>> \o FindAllFrom(p, s, e, ic)
                  ELSE FindAllFrom(p, s, i + 1, ic))

re_findall(p, s, ic) == Strict(s, LAMBDA t : FindAllFrom(p, t, 1, ic))

\* re.search(pattern, s): the leftmost match as an Optional
RECURSIVE SearchFrom(_, _, _, _)
SearchFrom(p, s, i, ic) ==
    IF i > Len(s) THEN None
    ELSE Strict(MatchEnd(p, s, i, ic),
                LAMBDA e :
                  IF e > 0 THEN Some(SubSeq(s, i, e - 1))
                  ELSE SearchFrom(p, s, i + 1, ic))

re_search(p, s, ic) == Strict(s, LAMBDA t : SearchFrom(p, t, 1, ic))

(***************************************************************************)
(* datetime.strptime for the formats of the source.  A datetime parsed     *)
(* from a date is the record [year, month, day] (its time is midnight).    *)
(***************************************************************************)
\* the first n characters of a field (digits, or the leading blank of a
\* day) as a number
RECURSIVE FieldValue(_, _)
FieldValue(f, n) ==
    IF n = 0 THEN 0
    ELSE IF f[n] = " " THEN FieldValue(f, n - 1)
    ELSE 10 * FieldValue(f, n - 1) + DigitVal(f[n])

AllDigits(f) == \A i \in 1..Len(f) : f[i] \in Digits

\* the regular expression that _strptime compiles for one directive, matched
\* against the whole field:
\*   %m  1[0-2]|0[1-9]|[1-9]        %d  3[01]|[12]\d|0[1-9]|[1-9]| [1-9]
\*   %Y  \d\d\d\d                   %y  \d\d
FieldOk(code, f) ==
    CASE code = "m" ->
           \/ Len(f) = 1 /\ AllDigits(f) /\ f[1] # "0"
           \/ Len(f) = 2 /\ f[1] = "1" /\ f[2] \in {"0", "1", "2"}
           \/ Len(f) = 2 /\ f[1] = "0" /\ f[2] \in Digits \ {"0"}
      [] code = "d" ->
           \/ Len(f) = 1 /\ AllDigits(f) /\ f[1] # "0"
           \/ Len(f) = 2 /\ f[1] = "3" /\ f[2] \in {"0", "1"}
           \/ Len(f) = 2 /\ f[1] \in {"1", "2"} /\ f[2] \in Digits
           \/ Len(f) = 2 /\ f[1] \in {"0", " "} /\ f[2] \in Digits \ {"0"}
      [] code = "Y" -> Len(f) = 4 /\ AllDigits(f)
      [] code = "y" -> Len(f) = 2 /\ AllDigits(f)

\* the position of the first sep in s at or after i, or Len(s) + 1
RECURSIVE NextSep(_, _, _)
NextSep(s, i, sep) ==
    IF i > Len(s) \/ s[i] = sep THEN i ELSE NextSep(s, i + 1, sep)

IsLeap(y) == (y % 4 = 0 /\ y % 100 # 0) \/ y % 400 = 0

DaysInMonth(y, m) ==
    IF m = 2 THEN (IF IsLeap(y) THEN 29 ELSE 28)
    ELSE IF m \in {4, 6, 9, 11} THEN 30 ELSE 31

\* %y: 69..99 are 1969..1999 and 0..68 are 2000..2068
CenturyYear(yy) == IF yy <= 68 THEN 2000 + yy ELSE 1900 + yy

\* datetime.strptime(date_str, fmt) for fmt = codes[1] sep codes[2] sep
\* codes[3]; None stands for the ValueError
\* the three fields of date_str between the separators sep, or <<>> when
\* date_str holds fewer than two separators
SplitFields(date_str, sep) ==
    Strict(NextSep(date_str, 1, sep), LAMBDA p1 :
    Strict(NextSep(date_str, p1 + 1, sep), LAMBDA p2 :
        IF p2 > Len(date_str) THEN <<>>
        ELSE << SubSeq(date_str, 1, p1 - 1),
                SubSeq(date_str, p1 + 1, p2 - 1),
                SubSeq(date_str, p2 + 1, Len(date_str)) >>))

strptime_fields(f, fmt) ==
    LET val(code) ==
            Strict(CHOOSE k \in 1..3 : fmt.codes[k] \in code, LAMBDA n :
            Strict(FieldValue(f[n], Len(f[n])), LAMBDA v :
                IF fmt.codes[n] = "y" THEN CenturyYear(v) ELSE v))
    IN  IF /\ f # <<>>
           /\ \A k \in 1..3 : FieldOk(fmt.codes[k], f[k])
        THEN Strict(<<val({"Y", "y"}), val({"m"}), val({"d"})>>, LAMBDA ymd :
               IF ymd[1] >= 1 /\ ymd[3] <= DaysInMonth(ymd[1], ymd[2])
               THEN Some([year |-> ymd[1], month |-> ymd[2], day |-> ymd[3]])
               ELSE None)
        ELSE None

\* datetime.strptime(date_str, fmt) for fmt = codes[1] sep codes[2] sep
\* codes[3]; None stands for the ValueError
strptime(date_str, fmt) ==
    Strict(SplitFields(date_str, fmt.sep), LAMBDA f : strptime_fields(f, fmt))

\* date_formats with the day-first formats ahead of the month-first ones
date_formats_day_first ==
    << [codes |-> <<"d", "m", "Y">>, sep |-> "/"],
       [codes |-> <<"d", "m", "y">>, sep |-> "/"],
       [codes |-> <<"m", "d", "Y">>, sep |-> "/"],
       [codes |-> <<"m", "d", "y">>, sep |-> "/"],
       [codes |-> <<"Y", "m", "d">>, sep |-> "-"],
       [codes |-> <<"d", "m", "Y">>, sep |-> "-"] >>

\* date_formats
date_formats ==
    << [codes |-> <<"m", "d", "Y">>, sep |-> "/"],
       [codes |-> <<"m", "d", "y">>, sep |-> "/"],
       [codes |-> <<"d", "m", "Y">>, sep |-> "/"],
       [codes |-> <<"d", "m", "y">>, sep |-> "/"],
       [codes |-> <<"Y", "m", "d">>, sep |-> "-"],
       [codes |-> <<"d", "m", "Y">>, sep |-> "-"] >>

\* the first format of formats[n..] that parses date_str
RECURSIVE FirstParse(_, _, _)
FirstParse(date_str, formats, n) ==
    IF n > Len(formats) THEN None
    ELSE Strict(strptime(date_str, formats[n]), LAMBDA r :
           IF r # None THEN r ELSE FirstParse(date_str, formats, n + 1))

\* OCRService._parse_date
_parse_date(date_str) ==
    Strict(date_str, LAMBDA s : FirstParse(s, date_formats, 1))

\* d1 > d2 on datetimes at midnight
DateAfter(d1, d2) ==
    \/ d1.year > d2.year
    \/ d1.year = d2.year /\ d1.month > d2.month
    \/ d1.year = d2.year /\ d1.month = d2.month /\ d1.day > d2.day

(***************************************************************************)
(* OCRService: the field extractor and the candidate validator             *)
(***************************************************************************)
\* dict.get(key): the values of a dict are Optionals, an absent key is None
dict_get(d, k) == IF k \in DOMAIN d THEN d[k] ELSE None

\* 'ENTRY' in text.upper() or 'ARRIVAL' in text.upper()
IsEntryText(text) ==
    Contains(str_upper(text), W_ENTRY) \/ Contains(str_upper(text), W_ARRIVAL)

\* 'EXIT' in text.upper() or 'DEPARTURE' in text.upper()
IsExitText(text) ==
    Contains(str_upper(text), W_EXIT) \/ Contains(str_upper(text), W_DEPARTURE)

\* the dict built with the date of a text without direction word stored as
\* exit_date
ExtractedData_unknown_as_exit(m, entry, exit) ==
    LET date_key == IF entry THEN "entry_date" ELSE "exit_date"
        keys == (IF m.dates # <<>> THEN {date_key} ELSE {})
                \cup (IF m.country # None THEN {"country"} ELSE {})
                \cup (IF m.city # None THEN {"city"} ELSE {})
                \cup {"stamp_type"}
                \cup (IF m.airport # None THEN {"airport_code"} ELSE {})
    IN  [k \in keys |->
            CASE k \in {"entry_date", "exit_date"} -> _parse_date(m.dates[1])
              [] k = "country" -> Some(str_title(m.country[1]))
              [] k = "city" -> Some(str_title(m.city[1]))
              [] k = "stamp_type" ->
                    IF entry THEN Some("entry")
                    ELSE IF exit THEN Some("exit")
                    ELSE Some("unknown")
              [] k = "airport_code" -> m.airport]

\* the dict built with the first date stored under both date keys
ExtractedData_both_dates(m, entry, exit) ==
    LET keys == (IF m.dates # <<>> THEN {"entry_date", "exit_date"} ELSE {})
                \cup (IF m.country # None THEN {"country"} ELSE {})
                \cup (IF m.city # None THEN {"city"} ELSE {})
                \cup {"stamp_type"}
                \cup (IF m.airport # None THEN {"airport_code"} ELSE {})
    IN  [k \in keys |->
            CASE k \in {"entry_date", "exit_date"} -> _parse_date(m.dates[1])
              [] k = "country" -> Some(str_title(m.country[1]))
              [] k = "city" -> Some(str_title(m.city[1]))
              [] k = "stamp_type" ->
                    IF entry THEN Some("entry")
                    ELSE IF exit THEN Some("exit")
                    ELSE Some("unknown")
              [] k = "airport_code" -> m.airport]

\* the dict built from the matches m of the four patterns and the
\* direction words found (entry, exit)
ExtractedData(m, entry, exit) ==
    LET date_key == IF entry THEN "entry_date"
                    ELSE IF exit THEN "exit_date"
                    ELSE "entry_date"
        keys == (IF m.dates # <<>> THEN {date_key} ELSE {})
                \cup (IF m.country # None THEN {"country"} ELSE {})
                \cup (IF m.city # None THEN {"city"} ELSE {})
                \cup {"stamp_type"}
                \cup (IF m.airport # None THEN {"airport_code"} ELSE {})
    IN  [k \in keys |->
            CASE k \in {"entry_date", "exit_date"} -> _parse_date(m.dates[1])
              [] k = "country" -> Some(str_title(m.country[1]))
              [] k = "city" -> Some(str_title(m.city[1]))
              [] k = "stamp_type" ->
                    IF entry THEN Some("entry")
                    ELSE IF exit THEN Some("exit")
                    ELSE Some("unknown")
              [] k = "airport_code" -> m.airport]

\* OCRService._parse_stamp_text: the dict extracted_data, whose keys are the
\* fields that were assigned, or None when the dict is empty
_parse_stamp_text(text) ==
    Strict([ dates |-> re_findall("date", text, FALSE),
             country |-> re_search("country", text, TRUE),
             city |-> re_search("city", text, FALSE),
             airport |-> re_search("airport_code", text, FALSE) ],
           LAMBDA m :
    Strict(<<IsEntryText(text), IsExitText(text)>>, LAMBDA dir :
    Strict(ExtractedData(m, dir[1], dir[2]), LAMBDA extracted_data :
        IF DOMAIN extracted_data # {} THEN Some(extracted_data) ELSE None)))

\* the truth value Python gives an Optional[str] and an Optional[datetime]
TruthyStr(o) == o # None /\ o[1] # <<>>

TruthyDate(o) == o # None

\* OCRService.validate_stamp_data.  now1 and now2 are the days of the two
\* datetime.now() readings; a date (midnight) is later than a reading exactly
\* when its day is later than the reading's day.
\* validate_stamp_data without its last test (entry_date > exit_date)
validate_without_order_test(stamp, now1, now2) ==
    IF /\ ~TruthyDate(stamp.entry_date) /\ ~TruthyDate(stamp.exit_date)
       /\ ~TruthyStr(stamp.country)
    THEN FALSE
    ELSE IF TruthyDate(stamp.entry_date) /\ DateAfter(stamp.entry_date[1], now1)
    THEN FALSE
    ELSE IF TruthyDate(stamp.exit_date) /\ DateAfter(stamp.exit_date[1], now2)
    THEN FALSE
    ELSE TRUE

\* validate_stamp_data testing only the entry date against the clock
validate_without_exit_clock_test(stamp, now1, now2) ==
    IF /\ ~TruthyDate(stamp.entry_date) /\ ~TruthyDate(stamp.exit_date)
       /\ ~TruthyStr(stamp.country)
    THEN FALSE
    ELSE IF TruthyDate(stamp.entry_date) /\ DateAfter(stamp.entry_date[1], now1)
    THEN FALSE
    ELSE IF /\ TruthyDate(stamp.entry_date) /\ TruthyDate(stamp.exit_date)
            /\ DateAfter(stamp.entry_date[1], stamp.exit_date[1])
    THEN FALSE
    ELSE TRUE

\* validate_stamp_data rejecting every candidate without a country
validate_requiring_country(stamp, now1, now2) ==
    IF ~TruthyStr(stamp.country)
    THEN FALSE
    ELSE IF TruthyDate(stamp.entry_date) /\ DateAfter(stamp.entry_date[1], now1)
    THEN FALSE
    ELSE IF TruthyDate(stamp.exit_date) /\ DateAfter(stamp.exit_date[1], now2)
    THEN FALSE
    ELSE IF /\ TruthyDate(stamp.entry_date) /\ TruthyDate(stamp.exit_date)
            /\ DateAfter(stamp.entry_date[1], stamp.exit_date[1])
    THEN FALSE
    ELSE TRUE

validate_stamp_data(stamp, now1, now2) ==
    IF /\ ~TruthyDate(stamp.entry_date) /\ ~TruthyDate(stamp.exit_date)
       /\ ~TruthyStr(stamp.country)
    THEN FALSE
    ELSE IF TruthyDate(stamp.entry_date) /\ DateAfter(stamp.entry_date[1], now1)
    THEN FALSE
    ELSE IF TruthyDate(stamp.exit_date) /\ DateAfter(stamp.exit_date[1], now2)
    THEN FALSE
    ELSE IF /\ TruthyDate(stamp.entry_date) /\ TruthyDate(stamp.exit_date)
            /\ DateAfter(stamp.entry_date[1], stamp.exit_date[1])
    THEN FALSE
    ELSE TRUE

(***************************************************************************)
(* Confidences.  A confidence is the rational num/den in lowest terms;     *)
(* den = 0 is the NaN that numpy's mean gives for an empty list.  Every    *)
(* comparison with NaN is false.                                           *)
(***************************************************************************)
RECURSIVE GCD(_, _)
GCD(a, b) == IF b = 0 THEN a ELSE GCD(b, a % b)

NaN == [num |-> 0, den |-> 0]

Rational(n, d) ==
    IF d = 0 THEN NaN
    ELSE IF n = 0 THEN [num |-> 0, den |-> 1]
    ELSE [num |-> n \div GCD(n, d), den |-> d \div GCD(n, d)]

IsNaN(c) == c.den = 0

ConfLess(a, b) == ~IsNaN(a) /\ ~IsNaN(b) /\ a.num * b.den < b.num * a.den

ConfGreater(a, b) == ConfLess(b, a)

RECURSIVE SeqSum(_)
SeqSum(s) == IF s = <<>> THEN 0 ELSE Head(s) + SeqSum(Tail(s))

\* np.mean([int(conf) for conf in confidence['conf'] if int(conf) > 0])
MeanPositive(conf) ==
    LET pos == SelectSeq(conf, LAMBDA c : c > 0)
    IN  Rational(SeqSum(pos), Len(pos))

\* settings.OCR_CONFIDENCE_THRESHOLD (0.7)
OCR_CONFIDENCE_THRESHOLD == [num |-> 7, den |-> 10]

\* c * 100 and c / 100 (0.7 * 100 is 70.0 in floating point as well)
Times100(c) == Rational(c.num * 100, c.den)

Over100(c) == Rational(c.num, c.den * 100)

\* max(ocr_results, key=lambda x: x['confidence']): the first result is
\* kept until a later one compares greater
RECURSIVE MaxFrom(_, _, _)
MaxFrom(results, n, best) ==
    IF n > Len(results) THEN best
    ELSE MaxFrom(results, n + 1,
                 IF ConfGreater(results[n].confidence, best.confidence)
                 THEN results[n] ELSE best)

max_confidence(results) == MaxFrom(results, 2, results[1])

(***************************************************************************)
(* State                                                                   *)
(***************************************************************************)
VARIABLES
    now,          \* the day of the clock (datetime.now())
    pc,           \* position of the process_passport_image call
    image,        \* what cv2.imread gave: readable, and the contours found
    regions,      \* stamp_regions still to be processed
    config,       \* index of the next OCR configuration of _process_stamp
    ocr_results,  \* ocr_results of the running _process_stamp call
    raised,       \* configurations of the running call that raised
    stamps,       \* the list stamps of process_passport_image
    last,         \* the _process_stamp call that has just finished (history)
    v_stamp,      \* the candidate handed to validate_stamp_data
    v_clock,      \* the two clock readings of that call
    v_result,     \* what validate_stamp_data returned, as an Optional
    email,        \* the EmailMessage handed to parse_flight_confirmation
    confirmation, \* the outcome of that call
    parse_count,  \* calls of parse_flight_confirmation on this message
    first_result, \* the outcome of the first of these calls
    travel_entries, \* the Firestore collection: document id -> document
    last_op,      \* the last operation on the collection and its outcome
    locks,        \* the users whose reconciliation lock is held
    active,       \* the reconciliation runs in progress
    req_count,    \* the reconcile requests received so far
    last_req,     \* the last reconcile request and what became of it
    p_text,       \* the text handed to _parse_stamp_text
    p_result,     \* the outcome of that call
    d_contours,   \* the bounding boxes handed to the region filter
    d_regions,    \* the regions _detect_stamp_regions returned
    d_state,      \* idle, pending or done
    dt_input,     \* the date string handed to _parse_date, with its fields
    dt_result,    \* the outcome of that call
    x_pc,         \* the position of extract_passport_stamp_data
    x_image,      \* its argument image_data
    x_response,   \* what process_image_with_gemini returned
    x_result,     \* what the call returned
    gemini_calls, \* invocations of process_image_with_gemini in this call
    vision_calls, \* invocations of process_image_with_vision in this call
    passport_images, \* the stored passport image records: id -> record
    rq,           \* the last POST /process/{image_id} request (history)
    cmp_text,     \* a text handed to both stamp text parsers
    cmp_local,    \* what _parse_stamp_text returned for it
    cmp_vision,   \* what _parse_stamp_text_vision returned for it
    cmp_state     \* idle, submitted, local or both

ocrVars == <<pc, image, regions, config, ocr_results, raised, stamps, last>>

valVars == <<v_stamp, v_clock, v_result>>

emailVars == <<email, confirmation, parse_count, first_result>>

travelVars == <<travel_entries, last_op>>

lockVars == <<locks, active, req_count, last_req>>

parseVars == <<p_text, p_result>>

detectVars == <<d_contours, d_regions, d_state>>

extractVars ==
    <<x_pc, x_image, x_response, x_result, gemini_calls, vision_calls>>

dateVars == <<dt_input, dt_result>>

routerVars == <<passport_images, rq>>

compareVars == <<cmp_text, cmp_local, cmp_vision, cmp_state>>

vars ==
    <<now, ocrVars, valVars, emailVars, travelVars, lockVars, parseVars,
      detectVars, extractVars, dateVars, routerVars, compareVars>>

\* what the actions of one component leave alone
notOcr == <<now, valVars, emailVars, travelVars, lockVars, parseVars,
      detectVars, extractVars, dateVars, routerVars, compareVars>>

notVal == <<ocrVars, emailVars, travelVars, lockVars, parseVars,
      detectVars, extractVars, dateVars, routerVars, compareVars>>

notEmail == <<now, ocrVars, valVars, travelVars, lockVars, parseVars,
      detectVars, extractVars, dateVars, routerVars, compareVars>>

notTravel == <<now, ocrVars, valVars, emailVars, lockVars, parseVars,
      detectVars, extractVars, dateVars, routerVars, compareVars>>

notLock == <<now, ocrVars, valVars, emailVars, last_op, parseVars,
      detectVars, extractVars, dateVars, routerVars, compareVars>>

notParse ==
    <<now, ocrVars, valVars, emailVars, travelVars, lockVars, detectVars,
      extractVars, dateVars, routerVars, compareVars>>

notDetect ==
    <<now, ocrVars, valVars, emailVars, travelVars, lockVars, parseVars,
      extractVars, dateVars, routerVars, compareVars>>

notExtract ==
    <<now, ocrVars, valVars, emailVars, travelVars, lockVars, parseVars,
      detectVars, dateVars, routerVars, compareVars>>

notDate ==
    <<now, ocrVars, valVars, emailVars, travelVars, lockVars, parseVars,
      detectVars, extractVars, routerVars, compareVars>>

notRouter ==
    <<now, ocrVars, valVars, emailVars, travelVars, lockVars, parseVars,
      detectVars, extractVars, dateVars, compareVars>>

notCompare ==
    <<now, ocrVars, valVars, emailVars, travelVars, lockVars, parseVars,
      detectVars, extractVars, dateVars, routerVars>>

(***************************************************************************)
(* Bounds and inputs of the OCR pipeline                                   *)
(***************************************************************************)
MaxContours == 1

MaxWords == 1

\* Seq(S) up to length n
RECURSIVE SeqsUpTo(_, _)
SeqsUpTo(S, n) ==
    IF n = 0 THEN {<<>>}
    ELSE LET shorter == SeqsUpTo(S, n - 1)
         IN  shorter \cup {Append(s, x) : s \in shorter, x \in S}

\* bounding rectangles of contours: one too small, one of a stamp's size
Boxes ==
    { [x |-> 5, y |-> 5, w |-> 40, h |-> 20],
      [x |-> 5, y |-> 60, w |-> 120, h |-> 60] }

Images ==
    {[readable |-> FALSE, contours |-> <<>>]}
    \cup [readable : {TRUE}, contours : SeqsUpTo(Boxes, MaxContours)]

\* the 'conf' column of image_to_data: -1 for a row that is no word
WordConfs == {-1, 0, 60, 80}

T_blank == <<" ", "\n">>

T_noise == <<"1", "2", ":", "3", "0">>

T_entry ==
    <<"E","N","T","R","Y"," ","F","R","A","N","C","E"," ",
      "0","3","/","1","4","/","2","0","2","3">>

T_exit == <<"e","x","i","t"," ","1","/","2","/","6","8">>

OcrTexts == {T_blank, T_noise, T_entry, T_exit}

\* what one configuration's two tesseract calls give: an exception, or the
\* text and the word confidences
PassOutcomes ==
    {[raises |-> TRUE, text |-> <<>>, conf |-> <<>>]}
    \cup [raises : {FALSE}, text : OcrTexts, conf : SeqsUpTo(WordConfs, MaxWords)]

Days ==
    { [year |-> 1999, month |-> 1, day |-> 2],
      [year |-> 2023, month |-> 3, day |-> 14],
      [year |-> 2025, month |-> 9, day |-> 8] }

(***************************************************************************)
(* OCRService.process_passport_image                                       *)
(***************************************************************************)
\* configs
configs == <<"--psm 6", "--psm 8", "--psm 13">>

\* OCRService._detect_stamp_regions on the bounding rectangles of the
\* contours: 1.5 < w / h < 5.0 is 3 * h < 2 * w and w < 5 * h
\* the region filter testing the aspect ratio only
detect_without_size_filter(contours) ==
    SelectSeq(contours, LAMBDA c : 3 * c.h < 2 * c.w /\ c.w < 5 * c.h)

_detect_stamp_regions(contours) ==
    SelectSeq(contours,
              LAMBDA c : /\ 50 < c.w /\ c.w < 300 /\ 30 < c.h /\ c.h < 150
                         /\ 3 * c.h < 2 * c.w /\ c.w < 5 * c.h)

PassportStamp(text, confidence, stamp_data) ==
    [ text |-> text,
      confidence |-> confidence,
      country |-> dict_get(stamp_data, "country"),
      city |-> dict_get(stamp_data, "city"),
      entry_date |-> dict_get(stamp_data, "entry_date"),
      exit_date |-> dict_get(stamp_data, "exit_date"),
      stamp_type |-> dict_get(stamp_data, "stamp_type"),
      airport_code |-> None,
      raw_data |-> Some(stamp_data) ]

\* the threshold test of _process_stamp
BelowThreshold(confidence) ==
    ConfLess(confidence, Times100(OCR_CONFIDENCE_THRESHOLD))

\* OCRService._process_stamp after its loop over configs: parsed is the text
\* handed to _parse_stamp_text (None when it is not called), stamp the value
\* returned
_process_stamp(results) ==
    IF results = <<>> THEN [parsed |-> None, stamp |-> None]
    ELSE Strict(max_confidence(results), LAMBDA best_result :
           IF BelowThreshold(best_result.confidence)
           THEN [parsed |-> None, stamp |-> None]
           ELSE Strict(_parse_stamp_text(best_result.text), LAMBDA stamp_data :
                  [ parsed |-> Some(best_result.text),
                    stamp |->
                      IF stamp_data # None
                      THEN Some(PassportStamp(best_result.text,
                                   Over100(best_result.confidence),
                                   stamp_data[1]))
                      ELSE None ]))

NoCall == [done |-> FALSE, results |-> <<>>, raised |-> 0,
           parsed |-> None, stamp |-> None]

OcrIdle ==
    /\ pc = "idle"
    /\ image = [readable |-> FALSE, contours |-> <<>>]
    /\ regions = <<>>
    /\ config = 1
    /\ ocr_results = <<>>
    /\ raised = 0
    /\ stamps = <<>>
    /\ last = NoCall

\* cv2.imread, the ValueError for an unreadable image, _detect_stamp_regions
\* process_passport_image treating an empty region list as an error
LoadImage_raising_without_regions ==
    /\ pc = "idle"
    /\ \E img \in Images :
         /\ image' = img
         /\ regions' = IF img.readable THEN _detect_stamp_regions(img.contours)
                       ELSE <<>>
         /\ pc' = IF img.readable /\ _detect_stamp_regions(img.contours) # <<>>
                  THEN "loop" ELSE "raised"
    /\ stamps' = <<>>
    /\ UNCHANGED <<config, ocr_results, raised, last>>
    /\ UNCHANGED notOcr

LoadImage ==
    /\ pc = "idle"
    /\ \E img \in Images :
         /\ image' = img
         /\ IF ~img.readable
            THEN pc' = "raised" /\ regions' = <<>>
            ELSE pc' = "loop" /\ regions' = _detect_stamp_regions(img.contours)
    /\ stamps' = <<>>
    /\ UNCHANGED <<config, ocr_results, raised, last>>
    /\ UNCHANGED notOcr

\* for region in stamp_regions: the call of _process_stamp begins
BeginStamp ==
    /\ pc = "loop"
    /\ regions # <<>>
    /\ pc' = "ocr"
    /\ config' = 1
    /\ ocr_results' = <<>>
    /\ raised' = 0
    /\ last' = NoCall
    /\ UNCHANGED <<image, regions, stamps>>
    /\ UNCHANGED notOcr

\* one iteration of  for config in configs
OcrPass ==
    /\ pc = "ocr"
    /\ config <= Len(configs)
    /\ \E out \in PassOutcomes :
         IF out.raises
         THEN /\ raised' = raised + 1
              /\ UNCHANGED ocr_results
         ELSE /\ UNCHANGED raised
              /\ IF str_strip(out.text) # <<>>
                 THEN ocr_results' =
                        Append(ocr_results,
                               [ text |-> str_strip(out.text),
                                 confidence |-> MeanPositive(out.conf),
                                 config |-> configs[config] ])
                 ELSE UNCHANGED ocr_results
    /\ config' = config + 1
    /\ UNCHANGED <<pc, image, regions, stamps, last>>
    /\ UNCHANGED notOcr

\* the rest of _process_stamp, and  if stamp_data: stamps.append(stamp_data)
FinishStamp ==
    /\ pc = "ocr"
    /\ config > Len(configs)
    /\ \E r \in {_process_stamp(ocr_results)} :
           /\ last' = [done |-> TRUE, results |-> ocr_results,
                       raised |-> raised, parsed |-> r.parsed,
                       stamp |-> r.stamp]
           /\ stamps' = IF r.stamp # None THEN Append(stamps, r.stamp[1])
                        ELSE stamps
    /\ regions' = Tail(regions)
    /\ pc' = "loop"
    /\ UNCHANGED <<image, config, ocr_results, raised>>
    /\ UNCHANGED notOcr

\* return stamps
ReturnStamps ==
    /\ pc = "loop"
    /\ regions = <<>>
    /\ pc' = "done"
    /\ UNCHANGED <<image, regions, config, ocr_results, raised, stamps, last>>
    /\ UNCHANGED notOcr

NextOCR ==
    \/ LoadImage
    \/ BeginStamp
    \/ OcrPass
    \/ FinishStamp
    \/ ReturnStamps

(***************************************************************************)
(* OCRService.validate_stamp_data as an operation                          *)
(***************************************************************************)
France == <<"F","r","a","n","c","e">>

\* a PassportStamp with the fields the validator reads
Candidate(entry_date, exit_date, country) ==
    [ text |-> <<"x">>,
      confidence |-> Rational(9, 10),
      country |-> country,
      city |-> None,
      entry_date |-> entry_date,
      exit_date |-> exit_date,
      stamp_type |-> Some("unknown"),
      airport_code |-> None,
      raw_data |-> None ]

OptionalDays == {None} \cup {Some(d) : d \in Days}

Candidates ==
    { Candidate(en, ex, co) :
        en \in OptionalDays, ex \in OptionalDays,
        co \in {None, Some(<<>>), Some(France)} }

ValIdle ==
    /\ v_stamp = Candidate(None, None, None)
    /\ v_clock = <<>>
    /\ v_result = None

\* one call of validate_stamp_data; the clock may advance between its two
\* readings
Validate ==
    /\ \E c \in Candidates, later \in Days :
         /\ ~DateAfter(now, later)
         /\ v_stamp' = c
         /\ v_clock' = <<now, later>>
         /\ v_result' = Some(validate_stamp_data(c, now, later))
         /\ now' = later
    /\ UNCHANGED notVal

NextValidate == Validate

(***************************************************************************)
(* EmailService.parse_flight_confirmation                                  *)
(***************************************************************************)
\* a Python value that is a str, and one that is a list of str
PyStr(s) == [type |-> "str", v |-> s]

PyList(l) == [type |-> "list", v |-> l]

\* keyword in email.subject.lower() or keyword in email.body.lower(), for
\* any keyword of confirmation_keywords
is_confirmation(e) ==
    \E n \in 1..Len(confirmation_keywords) :
        \/ Contains(str_lower(e.subject), confirmation_keywords[n])
        \/ Contains(str_lower(e.body), confirmation_keywords[n])

\* re.findall(pattern, email.body, re.IGNORECASE) for each pattern
EmailMatches(body) ==
    [ flight_number |-> re_findall("flight_number", body, TRUE),
      departure_date |-> re_findall("departure_date", body, TRUE),
      departure_time |-> re_findall("departure_time", body, TRUE),
      airport_code |-> re_findall("airport_code", body, TRUE),
      airline |-> re_findall("airline", body, TRUE) ]

\* extracted_data[key] = matches[0] if len(matches) == 1 else matches
EmailExtractedData(found) ==
    [k \in {key \in DOMAIN found : found[key] # <<>>} |->
        IF Len(found[k]) = 1 THEN Some(PyStr(found[k][1]))
        ELSE Some(PyList(found[k]))]

\* the pydantic model FlightConfirmation: an Optional[str] field accepts
\* None or a str, and a keyword that is no field (airport_code) is ignored
FlightConfirmationFields ==
    {"flight_number", "departure_date", "departure_time", "airline"}

FlightConfirmationValid(d) ==
    \A k \in FlightConfirmationFields :
        dict_get(d, k) = None \/ dict_get(d, k)[1].type = "str"

FlightConfirmation(email_id, d) ==
    [ email_id |-> email_id,
      flight_number |-> dict_get(d, "flight_number"),
      departure_date |-> dict_get(d, "departure_date"),
      departure_time |-> dict_get(d, "departure_time"),
      arrival_date |-> None,
      arrival_time |-> None,
      departure_airport |-> None,
      arrival_airport |-> None,
      airline |-> dict_get(d, "airline"),
      passenger_name |-> None,
      booking_reference |-> None,
      raw_data |-> Some(d) ]

NoConfirmation == [kind |-> "none", value |-> None]

\* the outcome of the call: kind "candidate" with the FlightConfirmation,
\* kind "none", or kind "raises" for pydantic's ValidationError
\* parse_flight_confirmation returning on classification or extraction
parse_flight_confirmation_either(e) ==
    Strict(EmailExtractedData(EmailMatches(e.body)), LAMBDA extracted_data :
        IF is_confirmation(e) \/ DOMAIN extracted_data # {}
        THEN IF FlightConfirmationValid(extracted_data)
             THEN [kind |-> "candidate",
                   value |-> Some(FlightConfirmation(e.message_id,
                                                     extracted_data))]
             ELSE [kind |-> "raises", value |-> None]
        ELSE NoConfirmation)

parse_flight_confirmation(e) ==
    Strict(EmailExtractedData(EmailMatches(e.body)), LAMBDA extracted_data :
        IF is_confirmation(e) /\ DOMAIN extracted_data # {}
        THEN IF FlightConfirmationValid(extracted_data)
             THEN [kind |-> "candidate",
                   value |-> Some(FlightConfirmation(e.message_id,
                                                     extracted_data))]
             ELSE [kind |-> "raises", value |-> None]
        ELSE NoConfirmation)

MaxBodyTokens == 2

MaxParses == 2

S_confirmation == <<"Y","o","u","r"," ","D","e","l","t","a"," ","F","l","i","g","h","t"," ","C","o","n","f","i","r","m","a","t","i","o","n">>

S_boarding == <<"B","O","A","R","D","I","N","G"," ","P","A","S","S">>

S_hello == <<"H","e","l","l","o">>

Subjects == {S_confirmation, S_boarding, S_hello}

BodyTokens ==
    { <<"D","L"," ","1","2","3","4">>,
      <<"0","3","/","1","4","/","2","0","2","3">>,
      <<"D","e","l","t","a">>,
      <<"i","t","i","n","e","r","a","r","y">>,
      <<"h","i">>,
      <<"9",":","3","0"," ","A","M">>,
      <<"L","A","X">> }

\* the tokens joined by blanks
RECURSIVE JoinTokens(_)
JoinTokens(tokens) ==
    IF tokens = <<>> THEN <<>>
    ELSE IF Len(tokens) = 1 THEN tokens[1]
    ELSE tokens[1] \o <<" ">> \o JoinTokens(Tail(tokens))

Emails ==
    { [message_id |-> <<"m", "1">>, subject |-> s, body |-> JoinTokens(b)] :
        s \in Subjects, b \in SeqsUpTo(BodyTokens, MaxBodyTokens) }

EmailIdle ==
    /\ email = [message_id |-> <<>>, subject |-> <<>>, body |-> <<>>]
    /\ confirmation = [kind |-> "idle", value |-> None]
    /\ parse_count = 0
    /\ first_result = [kind |-> "idle", value |-> None]

\* a message arrives from the mailbox and awaits parsing
FetchEmail ==
    /\ confirmation.kind # "pending"
    /\ \E e \in Emails : email' = e
    /\ confirmation' = [kind |-> "pending", value |-> None]
    /\ parse_count' = 0
    /\ first_result' = [kind |-> "idle", value |-> None]
    /\ UNCHANGED notEmail

\* parse_flight_confirmation answering none to a message it has seen
ParseFlightConfirmation_once ==
    /\ confirmation.kind # "idle"
    /\ parse_count < MaxParses
    /\ confirmation' = IF parse_count = 0
                       THEN parse_flight_confirmation(email)
                       ELSE NoConfirmation
    /\ parse_count' = parse_count + 1
    /\ first_result' = IF parse_count = 0 THEN confirmation' ELSE first_result
    /\ UNCHANGED <<email, notEmail>>

\* one call of parse_flight_confirmation on the fetched message, the first
\* or a repeated one
ParseFlightConfirmation ==
    /\ confirmation.kind # "idle"
    /\ parse_count < MaxParses
    /\ confirmation' = parse_flight_confirmation(email)
    /\ parse_count' = parse_count + 1
    /\ first_result' = IF parse_count = 0 THEN confirmation' ELSE first_result
    /\ UNCHANGED <<email, notEmail>>

NextEmail ==
    \/ FetchEmail
    \/ ParseFlightConfirmation

(***************************************************************************)
(* Firestore: TravelEntry and DatabaseOperations.create_travel_entry       *)
(***************************************************************************)
\* kwargs.get(key, default)
kwargs_get(kwargs, key, default) ==
    IF key \in DOMAIN kwargs THEN kwargs[key] ELSE default

\* TravelEntry(**kwargs) leaving confidence_score unset
TravelEntry_unscored(kwargs, uuid, utcnow) ==
    [ id |-> kwargs_get(kwargs, "id", uuid),
      user_id |-> kwargs_get(kwargs, "user_id", None),
      departure_date |-> kwargs_get(kwargs, "departure_date", None),
      return_date |-> kwargs_get(kwargs, "return_date", None),
      destination_country |-> kwargs_get(kwargs, "destination_country", None),
      destination_city |-> kwargs_get(kwargs, "destination_city", None),
      purpose |-> kwargs_get(kwargs, "purpose", None),
      source_type |-> kwargs_get(kwargs, "source_type", None),
      source_id |-> kwargs_get(kwargs, "source_id", None),
      confidence_score |-> None,
      is_verified |-> kwargs_get(kwargs, "is_verified", FALSE),
      verification_notes |-> kwargs_get(kwargs, "verification_notes", None),
      created_at |-> kwargs_get(kwargs, "created_at", Some(utcnow)),
      updated_at |-> kwargs_get(kwargs, "updated_at", Some(utcnow)) ]

\* TravelEntry(**kwargs); uuid and utcnow are the values uuid.uuid4() and
\* datetime.utcnow() deliver during the call
TravelEntry(kwargs, uuid, utcnow) ==
    [ id |-> kwargs_get(kwargs, "id", uuid),
      user_id |-> kwargs_get(kwargs, "user_id", None),
      departure_date |-> kwargs_get(kwargs, "departure_date", None),
      return_date |-> kwargs_get(kwargs, "return_date", None),
      destination_country |-> kwargs_get(kwargs, "destination_country", None),
      destination_city |-> kwargs_get(kwargs, "destination_city", None),
      purpose |-> kwargs_get(kwargs, "purpose", None),
      source_type |-> kwargs_get(kwargs, "source_type", None),
      source_id |-> kwargs_get(kwargs, "source_id", None),
      confidence_score |-> kwargs_get(kwargs, "confidence_score", None),
      is_verified |-> kwargs_get(kwargs, "is_verified", FALSE),
      verification_notes |-> kwargs_get(kwargs, "verification_notes", None),
      created_at |-> kwargs_get(kwargs, "created_at", Some(utcnow)),
      updated_at |-> kwargs_get(kwargs, "updated_at", Some(utcnow)) ]

\* doc_ref.set(data) on the document with the given id: the document is
\* created, or replaced when it exists
doc_set(collection, id, data) ==
    [x \in DOMAIN collection \cup {id} |->
        IF x = id THEN data ELSE collection[x]]

\* the collection after create_travel_entry(entry_data)
create_travel_entry(collection, entry_data, uuid, utcnow) ==
    doc_set(collection, TravelEntry(entry_data, uuid, utcnow).id,
            TravelEntry(entry_data, uuid, utcnow))

MaxEntries == 2

\* document ids
EntryIds == 1..MaxEntries

\* uuid.uuid4(): an id no document has
uuid4(used) ==
    CHOOSE id \in EntryIds \ used : \A other \in EntryIds \ used : id <= other

Users == {"u1"}

Japan == <<"J","a","p","a","n">>

Paris == <<"P","a","r","i","s">>

Tokyo == <<"T","o","k","y","o">>

Day(y, m, d) == [year |-> y, month |-> m, day |-> d]

\* entry data of a manual entry
ManualData(user, country) ==
    [k \in {"user_id", "departure_date", "return_date",
            "destination_country", "source_type"} |->
        CASE k = "user_id" -> Some(user)
          [] k = "departure_date" -> Some(Day(2023, 3, 14))
          [] k = "return_date" -> Some(Day(2023, 3, 15))
          [] k = "destination_country" -> Some(country)
          [] k = "source_type" -> Some("manual")]

\* d with key k set to v
dict_set(d, k, v) == [x \in DOMAIN d \cup {k} |-> IF x = k THEN v ELSE d[x]]

\* entry data whose return_date precedes its departure_date, which the
\* request model TravelEntryCreate accepts
BackwardData(user, country) ==
    dict_set(dict_set(ManualData(user, country),
                      "departure_date", Some(Day(2023, 3, 15))),
             "return_date", Some(Day(2023, 3, 14)))

\* the dictionaries handed to create_travel_entry: with or without an id,
\* with or without is_verified
EntryData ==
    LET plain == {ManualData(u, France) : u \in Users}
        verified == plain \cup {dict_set(d, "is_verified", TRUE) : d \in plain}
    IN  verified \cup {dict_set(d, "id", id) : d \in verified, id \in EntryIds}
                 \cup {BackwardData(u, France) : u \in Users}

NoOp == [name |-> "none", ok |-> TRUE, user |-> "", candidates |-> <<>>,
         created |-> <<>>]

TravelIdle ==
    /\ travel_entries = <<>>
    /\ last_op = NoOp

\* create_travel_entry returns
CreateTravelEntry ==
    /\ \E entry_data \in EntryData :
         /\ "id" \in DOMAIN entry_data \/ DOMAIN travel_entries # EntryIds
         /\ \E uuid \in {IF DOMAIN travel_entries # EntryIds
                         THEN uuid4(DOMAIN travel_entries) ELSE 0} :
              /\ travel_entries' =
                    create_travel_entry(travel_entries, entry_data, uuid, now)
              /\ last_op' =
                    [NoOp EXCEPT !.name = "create",
                                 !.created = <<kwargs_get(entry_data, "id",
                                                          uuid)>>]
    /\ UNCHANGED notTravel

\* doc_ref.set raises: create_travel_entry fails and nothing was written
CreateTravelEntryFails ==
    /\ last_op' = [NoOp EXCEPT !.name = "create", !.ok = FALSE]
    /\ UNCHANGED travel_entries
    /\ UNCHANGED notTravel

(***************************************************************************)
(* Reconciliation Engine (TravelService.auto_generate_entries).  The       *)
(* service module is not among the sources; the engine follows the         *)
(* design-level algorithm of the specification, section 4.6.               *)
(***************************************************************************)
\* the tolerance window, in days
Tolerance == 1

\* days from 0001-01-01 to the date (date.toordinal)
RECURSIVE DaysBeforeMonth(_, _)
DaysBeforeMonth(y, m) ==
    IF m = 1 THEN 0 ELSE DaysBeforeMonth(y, m - 1) + DaysInMonth(y, m - 1)

DayNumber(d) ==
    365 * (d.year - 1) + (d.year - 1) \div 4 - (d.year - 1) \div 100
        + (d.year - 1) \div 400 + DaysBeforeMonth(d.year, d.month) + d.day

\* the destination country agrees and the date ranges overlap or lie
\* within the tolerance window
SameTrip(a, b) ==
    /\ a.country = b.country
    /\ DayNumber(a.start) <= DayNumber(b["end"]) + Tolerance
    /\ DayNumber(b.start) <= DayNumber(a["end"]) + Tolerance

\* the indices grouped with the indices of g, directly or through others
RECURSIVE GroupClosure(_, _)
GroupClosure(candidates, g) ==
    LET more == g \cup {j \in 1..Len(candidates) :
                          \E i \in g : SameTrip(candidates[i], candidates[j])}
    IN  IF more = g THEN g ELSE GroupClosure(candidates, more)

\* the groups, each a set of indices, in the order of their first candidate
Groups(candidates) ==
    LET first == {i \in 1..Len(candidates) :
                    \A j \in GroupClosure(candidates, {i}) : i <= j}
        nth[n \in 0..Len(candidates)] ==
            IF n = 0 THEN <<>>
            ELSE IF n \in first
                 THEN Append(nth[n - 1], GroupClosure(candidates, {n}))
                 ELSE nth[n - 1]
    IN  nth[Len(candidates)]

\* the candidate of the group with the highest confidence, the earliest one
\* among equals
Authoritative(candidates, g) ==
    CHOOSE i \in g :
        \A j \in g \ {i} :
            \/ ConfGreater(candidates[i].confidence, candidates[j].confidence)
            \/ /\ candidates[i].confidence = candidates[j].confidence
               /\ i < j

\* the authoritative candidate's city, or else the city of the best other
\* candidate of the group that names one
MergedCity(candidates, g) ==
    LET a == Authoritative(candidates, g)
        named == {j \in g : candidates[j].city # None}
    IN  IF candidates[a].city # None \/ named = {} THEN candidates[a].city
        ELSE candidates[Authoritative(candidates, named)].city

\* a confidence of [0, 1] scaled to an integer of [0, 100]
confidence_score(confidence) == (confidence.num * 100) \div confidence.den

\* the entry data of the TravelEntry proposed for a group
GroupEntryData(user, candidates, g) ==
    LET a == candidates[Authoritative(candidates, g)]
    IN  [k \in {"user_id", "departure_date", "return_date",
                "destination_country", "destination_city", "source_type",
                "confidence_score"} |->
            CASE k = "user_id" -> Some(user)
              [] k = "departure_date" -> Some(a.start)
              [] k = "return_date" -> Some(a["end"])
              [] k = "destination_country" -> Some(a.country)
              [] k = "destination_city" -> MergedCity(candidates, g)
              [] k = "source_type" -> Some(a.source)
              [] k = "confidence_score" ->
                     Some(confidence_score(a.confidence))]

\* the entry data proposed for the candidates, one per group
ProposedEntries(user, candidates) ==
    Strict(Groups(candidates), LAMBDA groups :
        [n \in 1..Len(groups) |->
            GroupEntryData(user, candidates, groups[n])])

\* the collection and the ids created after the first k proposed entries
\* have been persisted with create_travel_entry
RECURSIVE Persist(_, _, _, _)
Persist(state, proposed, k, utcnow) ==
    IF k = 0 THEN state
    ELSE Strict(Persist(state, proposed, k - 1, utcnow), LAMBDA before :
           [ collection |->
                 create_travel_entry(before.collection, proposed[k],
                                     uuid4(DOMAIN before.collection), utcnow),
             created |-> Append(before.created,
                                uuid4(DOMAIN before.collection)) ])

MaxCandidates == 2

ReconCandidate(source, country, city, start, end, confidence) ==
    [ source |-> source, country |-> country, city |-> city,
      start |-> start, end |-> end, confidence |-> confidence ]

ReconCandidates ==
    { ReconCandidate("passport_stamp", France, None,
                     Day(2023, 3, 14), Day(2023, 3, 14), Rational(9, 10)),
      ReconCandidate("email", France, Some(Paris),
                     Day(2023, 3, 15), Day(2023, 3, 15), Rational(7, 10)),
      ReconCandidate("passport_stamp", France, None,
                     Day(2023, 3, 16), Day(2023, 3, 17), Rational(8, 10)),
      ReconCandidate("email", Japan, Some(Tokyo),
                     Day(2023, 3, 14), Day(2023, 3, 15), Rational(9, 10)) }

\* the reconciliation requests: a user, the candidates, and the entry data
\* the engine proposes for them
ReconcileRequests ==
    { [ user |-> user, candidates |-> candidates,
        proposed |-> ProposedEntries(user, candidates) ] :
        user \in Users,
        candidates \in SeqsUpTo(ReconCandidates, MaxCandidates) }

\* reconcile(user, candidates): one unverified entry is created per group;
\* a write that fails ends the run after the first k groups
Reconcile ==
    /\ \E request \in ReconcileRequests :
          \E k \in 0..Len(request.proposed) :
            /\ Cardinality(EntryIds \ DOMAIN travel_entries) >= k
            /\ \E after \in {Persist([collection |-> travel_entries,
                                      created |-> <<>>],
                                     request.proposed, k, now)} :
                 /\ travel_entries' = after.collection
                 /\ last_op' = [ name |-> "reconcile",
                                 ok |-> k = Len(request.proposed),
                                 user |-> request.user,
                                 candidates |-> request.candidates,
                                 created |-> after.created ]
    /\ UNCHANGED notTravel

NextTravel ==
    \/ CreateTravelEntry
    \/ CreateTravelEntryFails
    \/ Reconcile

(***************************************************************************)
(* Concurrent reconciliation requests: reconcile(user_id, candidates) is   *)
(* serialized per user by a lock (specification, sections 5 and 6).  A run *)
(* takes the lock when it starts and gives it back when it ends.           *)
(***************************************************************************)
MaxRequests == 3

\* the users sending reconcile requests at the same time
ConcurrentUsers == {"u1", "u2"}

\* the requests of these users, each about one candidate
ConcurrentRequests ==
    { [ user |-> user, candidates |-> <<c>>,
        proposed |-> ProposedEntries(user, <<c>>) ] :
        user \in ConcurrentUsers, c \in ReconCandidates }

NoRequest == [user |-> "", outcome |-> "none"]

LockIdle ==
    /\ locks = {}
    /\ active = {}
    /\ req_count = 0
    /\ last_req = NoRequest

\* a reconcile request that starts a run whether or not the lock is held
BeginReconcile_without_lock ==
    /\ req_count < MaxRequests
    /\ \E request \in ConcurrentRequests :
         /\ locks' = locks \cup {request.user}
         /\ active' = active \cup
                {[ id |-> req_count + 1, user |-> request.user,
                   proposed |-> request.proposed ]}
         /\ last_req' = [user |-> request.user, outcome |-> "started"]
    /\ req_count' = req_count + 1
    /\ UNCHANGED travel_entries
    /\ UNCHANGED notLock

\* a reconcile request arrives: it is refused with the contention error
\* when the user's lock is held, and starts a run holding the lock otherwise
BeginReconcile ==
    /\ req_count < MaxRequests
    /\ \E request \in ConcurrentRequests :
         IF request.user \in locks
         THEN /\ last_req' = [user |-> request.user, outcome |-> "contention"]
              /\ UNCHANGED <<locks, active>>
         ELSE /\ locks' = locks \cup {request.user}
              /\ active' = active \cup
                     {[ id |-> req_count + 1, user |-> request.user,
                        proposed |-> request.proposed ]}
              /\ last_req' = [user |-> request.user, outcome |-> "started"]
    /\ req_count' = req_count + 1
    /\ UNCHANGED travel_entries
    /\ UNCHANGED notLock

\* a run ends: its proposed entries are persisted, or the first k of them
\* when a write fails, and the user's lock is given back
FinishReconcile ==
    /\ \E run \in active :
         \E k \in 0..Len(run.proposed) :
            /\ Cardinality(EntryIds \ DOMAIN travel_entries) >= k
            /\ travel_entries' =
                  Persist([collection |-> travel_entries, created |-> <<>>],
                          run.proposed, k, now).collection
            /\ active' = active \ {run}
            /\ locks' = locks \ {run.user}
            /\ last_req' = [user |-> run.user,
                            outcome |-> IF k = Len(run.proposed)
                                        THEN "done" ELSE "failed"]
    /\ UNCHANGED req_count
    /\ UNCHANGED notLock

NextConcurrent ==
    \/ BeginReconcile
    \/ FinishReconcile

(***************************************************************************)
(* OCRService._parse_stamp_text as an operation of its own                 *)
(***************************************************************************)
\* the parts a stamp text is made of; an empty part is left out
DirectionWords == {<<>>, <<"E","N","T","R","Y">>, <<"a","r","r","i","v","a","l">>, <<"E","X","I","T">>, <<"D","e","p","a","r","t","u","r","e">>}

CountryWords == {<<>>, <<"U","S","A">>, <<"F","R","A","N","C","E">>}

CityWords == {<<>>, <<"L","O","S"," ","A","N","G","E","L","E","S">>, <<"P","a","r","i","s">>}

DateWords == {<<>>, <<"0","3","/","1","4","/","2","0","2","3">>, <<"1","4","/","0","3","/","2","3">>, <<"2","0","2","3","-","0","3","-","1","4">>, <<"1","/","2","/","6","8">>}

AirportWords == {<<>>, <<"L","A","X">>}

\* the non-empty parts joined by blanks
StampText(direction, country, city, date, airport) ==
    JoinTokens(SelectSeq(<<direction, country, city, date, airport>>,
                         LAMBDA part : part # <<>>))

StampTexts ==
    { StampText(direction, country, city, date, airport) :
        direction \in DirectionWords, country \in CountryWords,
        city \in CityWords, date \in DateWords, airport \in AirportWords }

ParseIdle ==
    /\ p_text = <<>>
    /\ p_result = [state |-> "idle", value |-> None]

\* a recognised text is handed to the field extractor
SubmitText ==
    /\ p_result.state # "pending"
    /\ \E text \in StampTexts : p_text' = text
    /\ p_result' = [state |-> "pending", value |-> None]
    /\ UNCHANGED notParse

ParseStampText ==
    /\ p_result.state = "pending"
    /\ p_result' = [state |-> "done", value |-> _parse_stamp_text(p_text)]
    /\ UNCHANGED <<p_text, notParse>>

NextParse ==
    \/ SubmitText
    \/ ParseStampText

(***************************************************************************)
(* OCRService._detect_stamp_regions as an operation of its own             *)
(***************************************************************************)
MaxDetectContours == 2

Box(w, h) == [x |-> 5, y |-> 5, w |-> w, h |-> h]

\* bounding boxes inside, outside and on the limits of the filter
DetectBoxes ==
    { Box(40, 20), Box(50, 30), Box(51, 31), Box(120, 60), Box(300, 150),
      Box(100, 100), Box(150, 100), Box(250, 50), Box(290, 31) }

DetectIdle ==
    /\ d_contours = <<>>
    /\ d_regions = <<>>
    /\ d_state = "idle"

\* cv2.findContours and cv2.boundingRect deliver the boxes
FindContours ==
    /\ d_state = "idle"
    /\ \E contours \in SeqsUpTo(DetectBoxes, MaxDetectContours) :
          d_contours' = contours
    /\ d_state' = "pending"
    /\ UNCHANGED d_regions
    /\ UNCHANGED notDetect

DetectStampRegions ==
    /\ d_state = "pending"
    /\ d_regions' = _detect_stamp_regions(d_contours)
    /\ d_state' = "done"
    /\ UNCHANGED d_contours
    /\ UNCHANGED notDetect

NextDetect ==
    \/ FindContours
    \/ DetectStampRegions

(***************************************************************************)
(* GoogleCloudService.extract_passport_stamp_data                          *)
(***************************************************************************)
ImageData == {"jpeg1", "jpeg2"}

\* what Gemini may answer: text that json.loads decodes, given with the
\* decoded document, and text on which json.loads raises JSONDecodeError
GeminiResponses ==
    { [text |-> "{\"country\": \"France\", \"stamp_type\": \"entry\"}",
       parsed |-> Some([country |-> Some("France"), stamp_type |-> "entry"])],
      [text |-> "{\"country\": \"Japan\", \"stamp_type\": \"exit\"}",
       parsed |-> Some([country |-> Some("Japan"), stamp_type |-> "exit"])],
      [text |-> "{\"country\": null, \"stamp_type\": \"transit\"}",
       parsed |-> Some([country |-> None, stamp_type |-> "transit"])],
      [text |-> "Here is the JSON you asked for", parsed |-> None],
      [text |-> "country: France, stamp_type: entry", parsed |-> None],
      [text |-> "", parsed |-> None] }

\* the text process_image_with_vision may return, handed to
\* _parse_stamp_text_vision
VisionTexts ==
    { "", "FRANCE ENTRY 03/14/2023", "JAPAN EXIT 15/03/23", "CANADA",
      "14 MAR 2023" }

NoResult == [kind |-> "none", value |-> None]

ExtractIdle ==
    /\ x_pc = "idle"
    /\ x_image = ""
    /\ x_response = None
    /\ x_result = NoResult
    /\ gemini_calls = 0
    /\ vision_calls = 0

\* a caller invokes extract_passport_stamp_data(image_data)
CallExtract ==
    /\ x_pc \in {"idle", "done", "raised"}
    /\ \E image_data \in ImageData : x_image' = image_data
    /\ x_pc' = "gemini"
    /\ x_response' = None
    /\ x_result' = NoResult
    /\ gemini_calls' = 0
    /\ vision_calls' = 0
    /\ UNCHANGED notExtract

\* the call of the generative backend with its failure leaving the function
CallGemini_propagating ==
    /\ x_pc = "gemini"
    /\ gemini_calls' = gemini_calls + 1
    /\ \/ \E response \in GeminiResponses :
             /\ x_response' = Some(response)
             /\ x_pc' = "loads"
       \/ /\ x_response' = None
          /\ x_pc' = "raised"
    /\ UNCHANGED <<x_image, x_result, vision_calls>>
    /\ UNCHANGED notExtract

\* result = await self.process_image_with_gemini(image_data, prompt)
CallGemini ==
    /\ x_pc = "gemini"
    /\ gemini_calls' = gemini_calls + 1
    /\ \/ \E response \in GeminiResponses :
             /\ x_response' = Some(response)
             /\ x_pc' = "loads"
       \/ /\ x_response' = None
          /\ x_pc' = "except"
    /\ UNCHANGED <<x_image, x_result, vision_calls>>
    /\ UNCHANGED notExtract

\* parsed_data = json.loads(result["text"])
JsonLoads ==
    /\ x_pc = "loads"
    /\ IF x_response[1].parsed # None
       THEN /\ x_result' = [kind |-> "gemini", value |-> x_response[1].parsed]
            /\ x_pc' = "done"
       ELSE /\ x_pc' = "decode_error"
            /\ UNCHANGED x_result
    /\ UNCHANGED <<x_image, x_response, gemini_calls, vision_calls>>
    /\ UNCHANGED notExtract

\* except json.JSONDecodeError: the vision backend is called inside the
\* outer try, so that its failure is caught by except Exception
VisionAfterDecodeError ==
    /\ x_pc = "decode_error"
    /\ vision_calls' = vision_calls + 1
    /\ \/ \E text \in VisionTexts :
             /\ x_result' = [kind |-> "vision", value |-> Some(text)]
             /\ x_pc' = "done"
       \/ /\ x_pc' = "except"
          /\ UNCHANGED x_result
    /\ UNCHANGED <<x_image, x_response, gemini_calls>>
    /\ UNCHANGED notExtract

\* except Exception: the vision backend is called, and its failure leaves
\* the function
VisionAfterException ==
    /\ x_pc = "except"
    /\ vision_calls' = vision_calls + 1
    /\ \/ \E text \in VisionTexts :
             /\ x_result' = [kind |-> "vision", value |-> Some(text)]
             /\ x_pc' = "done"
       \/ /\ x_pc' = "raised"
          /\ UNCHANGED x_result
    /\ UNCHANGED <<x_image, x_response, gemini_calls>>
    /\ UNCHANGED notExtract

NextExtract ==
    \/ CallExtract
    \/ CallGemini
    \/ JsonLoads
    \/ VisionAfterDecodeError
    \/ VisionAfterException

(***************************************************************************)
(* OCRService._parse_date as an operation of its own                       *)
(***************************************************************************)
\* the fields a date string is written from
FirstFields ==
    { <<"3">>, <<"0", "3">>, <<"1", "2">>, <<"1", "4">>, <<"2", "9">>, <<"3", "1">>, <<"0", "0">>, <<"2", "0", "2", "3">> }

SecondFields ==
    { <<"2">>, <<"0", "2">>, <<"1", "2">>, <<"1", "4">>, <<"3", "1">>, <<"0", "0">> }

ThirdFields ==
    { <<"2", "0", "2", "3">>, <<"2", "0", "2", "4">>, <<"2", "3">>, <<"6", "8">>, <<"6", "9">>, <<"1", "4">> }

DateSeparators == {"/", "-"}

\* date strings that are no three fields
OtherDateStrings ==
    { <<>>, <<"0", "3", "/", "1", "4">>, <<"1", "4", " ", "M", "A", "R", " ", "2", "0", "2", "3">>, <<"2", "0", "2", "3", "0", "3", "1", "4">> }

\* a date string together with the fields it was written from
DateInputs ==
    { [fields |-> <<f1, f2, f3>>, sep |-> sep,
       str |-> f1 \o <<sep>> \o f2 \o <<sep>> \o f3] :
        f1 \in FirstFields, f2 \in SecondFields, f3 \in ThirdFields,
        sep \in DateSeparators }
    \cup { [fields |-> <<>>, sep |-> "/", str |-> s] : s \in OtherDateStrings }

DateIdle ==
    /\ dt_input = [fields |-> <<>>, sep |-> "/", str |-> <<>>]
    /\ dt_result = [state |-> "idle", value |-> None]

\* a matched date string is handed to _parse_date
SubmitDate ==
    /\ dt_result.state = "idle"
    /\ \E input \in DateInputs : dt_input' = input
    /\ dt_result' = [state |-> "pending", value |-> None]
    /\ UNCHANGED notDate

ParseDate ==
    /\ dt_result.state = "pending"
    /\ dt_result' = [state |-> "done", value |-> _parse_date(dt_input.str)]
    /\ UNCHANGED dt_input
    /\ UNCHANGED notDate

NextDate ==
    \/ SubmitDate
    \/ ParseDate

(***************************************************************************)
(* One recognition job: the local pipeline or the cloud extraction         *)
(***************************************************************************)
\* a step of process_passport_image, in a run that uses the local pipeline
LocalStep ==
    /\ x_pc = "idle"
    /\ NextOCR

\* a step of extract_passport_stamp_data, in a run that uses the cloud
CloudStep ==
    /\ pc = "idle"
    /\ NextExtract

NextRecognition ==
    \/ LocalStep
    \/ CloudStep

(***************************************************************************)
(* The route POST /process/{image_id} (process_passport_image)             *)
(***************************************************************************)
RouterUsers == {"u1", "u2"}

\* bearer tokens: one of each user, and one that verify_token refuses
Tokens == RouterUsers \cup {"invalid"}

\* the ids a request may name; no record has the id "i3"
ImageIds == {"i1", "i2", "i3"}

\* what ocr_service.process_passport_image gives for a stored file: the
\* ValueError of an unreadable file, or the list of stamps
ProcessingOutcomes ==
    { [raises |-> TRUE, stamps |-> <<>>],
      [raises |-> FALSE, stamps |-> <<>>],
      [raises |-> FALSE, stamps |-> <<"stamp1">>],
      [raises |-> FALSE, stamps |-> <<"stamp1", "stamp2">>] }

PassportImage(user_id) ==
    [user_id |-> user_id, processing_status |-> "pending", stamps |-> <<>>]

\* auth_service.get_current_user: the user of the token, or None for the
\* HTTPException 401
get_current_user(token) ==
    IF token \in RouterUsers THEN Some(token) ELSE None

\* ocr_service.get_passport_image(db, user_id, image_id): the record with
\* this id when it belongs to the user
get_passport_image(db, user_id, image_id) ==
    IF image_id \in DOMAIN db /\ db[image_id].user_id = user_id
    THEN Some(db[image_id])
    ELSE None

\* ocr_service.update_passport_image_results(db, image_id, stamps, status):
\* the record with this id receives the stamps and the status
update_passport_image_results(db, image_id, found, status) ==
    IF image_id \in DOMAIN db
    THEN [db EXCEPT ![image_id].stamps = found,
                    ![image_id].processing_status = status]
    ELSE db

NoProcessRequest ==
    [token |-> "", image_id |-> "", outcome |-> "none", updates |-> <<>>,
     before |-> <<>>]

RouterIdle ==
    /\ passport_images = [i \in {"i1", "i2"} |->
                            PassportImage(IF i = "i1" THEN "u1" ELSE "u2")]
    /\ rq = NoProcessRequest

\* the except branch: the status of image_id is set to failed, HTTP 500
ProcessFails(token, image_id, outcome) ==
    /\ passport_images' =
          update_passport_image_results(passport_images, image_id, <<>>,
                                        "failed")
    /\ rq' = [token |-> token, image_id |-> image_id, outcome |-> outcome,
              updates |-> <<[image_id |-> image_id, stamps |-> <<>>,
                             status |-> "failed"]>>,
              before |-> Some(passport_images)]

\* one POST /process/{image_id} request, from its authentication to its
\* response
ProcessPassportImage ==
    /\ \E token \in Tokens, image_id \in ImageIds, run \in ProcessingOutcomes :
          LET user == get_current_user(token)
          IN  IF user = None
              THEN ProcessFails(token, image_id, "auth_failed")
              ELSE IF get_passport_image(passport_images, user[1], image_id)
                        = None
              THEN ProcessFails(token, image_id, "not_found")
              ELSE IF run.raises
              THEN ProcessFails(token, image_id, "processing_failed")
              ELSE /\ passport_images' =
                        update_passport_image_results(
                            passport_images, image_id, run.stamps, "completed")
                   /\ rq' = [token |-> token, image_id |-> image_id,
                             outcome |-> "completed",
                             updates |-> <<[image_id |-> image_id,
                                            stamps |-> run.stamps,
                                            status |-> "completed"]>>,
                             before |-> Some(passport_images)]
    /\ UNCHANGED notRouter

NextRouter == ProcessPassportImage

(***************************************************************************)
(* GoogleCloudService._parse_stamp_text_vision, beside the local parser    *)
(***************************************************************************)
\* the formats of the cloud parser's loop: the four slash formats
vision_date_formats == SubSeq(date_formats, 1, 4)

DigitChar(n) == DigitSeq[n + 1]

\* parsed_date.strftime('%Y-%m-%d')
strftime(d) ==
    << DigitChar(d.year \div 1000), DigitChar((d.year \div 100) % 10),
       DigitChar((d.year \div 10) % 10), DigitChar(d.year % 10), "-",
       DigitChar(d.month \div 10), DigitChar(d.month % 10), "-",
       DigitChar(d.day \div 10), DigitChar(d.day % 10) >>

\* the first date as the string the cloud parser stores, or None when no
\* date is matched or no format of the loop parses it
VisionDate(dates) ==
    IF dates = <<>> THEN None
    ELSE Strict(FirstParse(dates[1], vision_date_formats, 1), LAMBDA parsed :
           IF parsed = None THEN None ELSE Some(strftime(parsed[1])))

\* GoogleCloudService._parse_stamp_text_vision
_parse_stamp_text_vision(text) ==
    Strict(<<IsEntryText(text), IsExitText(text)>>, LAMBDA dir :
    Strict(VisionDate(re_findall("date", text, FALSE)), LAMBDA date :
    Strict(re_search("country", text, TRUE), LAMBDA country_match :
        [ country |-> IF country_match # None
                      THEN Some(str_title(country_match[1])) ELSE None,
          city |-> None,
          entry_date |-> IF dir[1] \/ ~dir[2] THEN date ELSE None,
          exit_date |-> IF ~dir[1] /\ dir[2] THEN date ELSE None,
          airport_code |-> re_search("airport_code", text, FALSE),
          stamp_type |-> IF dir[1] THEN Some("entry")
                         ELSE IF dir[2] THEN Some("exit")
                         ELSE Some("unknown"),
          confidence |-> Rational(1, 2) ])))

CompareDateWords ==
    { <<>>, <<"0", "3", "/", "1", "4", "/", "2", "0", "2", "3">>, <<"1", "4", "/", "0", "3", "/", "2", "3">>,
      <<"1", "4", "-", "0", "3", "-", "2", "0", "2", "3">>, <<"2", "0", "2", "3", "-", "0", "3", "-", "1", "4">> }

CompareTexts ==
    { StampText(direction, country, <<>>, date, airport) :
        direction \in DirectionWords, country \in CountryWords,
        date \in CompareDateWords, airport \in AirportWords }

CompareIdle ==
    /\ cmp_text = <<>>
    /\ cmp_local = None
    /\ cmp_vision = None
    /\ cmp_state = "idle"

\* a recognised text reaches both parsers
SubmitStampText ==
    /\ cmp_state = "idle"
    /\ \E text \in CompareTexts : cmp_text' = text
    /\ cmp_state' = "submitted"
    /\ UNCHANGED <<cmp_local, cmp_vision>>
    /\ UNCHANGED notCompare

ParseLocal ==
    /\ cmp_state = "submitted"
    /\ cmp_local' = _parse_stamp_text(cmp_text)
    /\ cmp_state' = "local"
    /\ UNCHANGED <<cmp_text, cmp_vision>>
    /\ UNCHANGED notCompare

ParseVision ==
    /\ cmp_state = "local"
    /\ cmp_vision' = Some(_parse_stamp_text_vision(cmp_text))
    /\ cmp_state' = "both"
    /\ UNCHANGED <<cmp_text, cmp_local>>
    /\ UNCHANGED notCompare

NextCompare ==
    \/ SubmitStampText
    \/ ParseLocal
    \/ ParseVision

(***************************************************************************)
(* Specifications                                                          *)
(***************************************************************************)
\* the day of this snapshot of the source
\* every component before its first operation
Idle ==
    /\ OcrIdle /\ ValIdle /\ EmailIdle
    /\ TravelIdle /\ LockIdle /\ ParseIdle
    /\ DetectIdle
    /\ ExtractIdle
    /\ DateIdle
    /\ RouterIdle
    /\ CompareIdle

Today == [year |-> 2025, month |-> 9, day |-> 8]

InitOCR == Idle /\ now = Today

SpecOCR == InitOCR /\ [][NextOCR]_vars

InitValidate == Idle /\ now \in Days

SpecValidate == InitValidate /\ [][NextValidate]_vars

InitTravel == Idle /\ now = Today

SpecTravel == InitTravel /\ [][NextTravel]_vars

InitEmail == Idle /\ now = Today

SpecEmail == InitEmail /\ [][NextEmail]_vars

InitCompare == Idle /\ now = Today

SpecCompare == InitCompare /\ [][NextCompare]_vars

InitRouter == Idle /\ now = Today

SpecRouter == InitRouter /\ [][NextRouter]_vars

InitRecognition == Idle /\ now = Today

SpecRecognition == InitRecognition /\ [][NextRecognition]_vars

InitDate == Idle /\ now = Today

SpecDate == InitDate /\ [][NextDate]_vars

InitExtract == Idle /\ now = Today

SpecExtract == InitExtract /\ [][NextExtract]_vars

InitDetect == Idle /\ now = Today

SpecDetect == InitDetect /\ [][NextDetect]_vars

InitParse == Idle /\ now = Today

SpecParse == InitParse /\ [][NextParse]_vars

InitConcurrent == Idle /\ now = Today

SpecConcurrent == InitConcurrent /\ [][NextConcurrent]_vars

(***************************************************************************)
(* Properties of the passport stamp pipeline (SpecOCR)                     *)
(***************************************************************************)
\* C1: every stamp candidate returned by process_passport_image passes
\* validate_stamp_data: none has a date in the future, none has entry_date
\* later than exit_date, and none lacks both a date and a country.
C1_ReturnedStampsAreValid ==
    pc = "done" =>
        \A i \in 1..Len(stamps) : validate_stamp_data(stamps[i], now, now)

\* no country, no city, no date and no airport code in the text
NothingExtractable(text) ==
    /\ re_search("country", text, TRUE) = None
    /\ re_search("city", text, FALSE) = None
    /\ re_findall("date", text, FALSE) = <<>>
    /\ re_search("airport_code", text, FALSE) = None

\* C2: when no country, no city, no date and no airport code can be
\* extracted from the recognised text, _parse_stamp_text returns none and
\* _process_stamp emits no candidate for the region.
C2_NothingExtractedGivesNone ==
    (last.done /\ last.parsed # None /\ NothingExtractable(last.parsed[1]))
        => /\ _parse_stamp_text(last.parsed[1]) = None
           /\ last.stamp = None

\* a confidence that is a number not below OCR_CONFIDENCE_THRESHOLD * 100
ReachesThreshold(confidence) ==
    /\ ~IsNaN(confidence)
    /\ ~ConfLess(confidence, Times100(OCR_CONFIDENCE_THRESHOLD))

\* C3: when the best confidence of a region's recognition results is below
\* OCR_CONFIDENCE_THRESHOLD, _process_stamp returns none and
\* _parse_stamp_text is not invoked for the region.
C3_BelowThresholdIsNotParsed ==
    ( /\ last.done
      /\ last.results # <<>>
      /\ \E i \in 1..Len(last.results) :
             ConfLess(last.results[i].confidence,
                      Times100(OCR_CONFIDENCE_THRESHOLD))
      /\ \A i \in 1..Len(last.results) :
             ~ReachesThreshold(last.results[i].confidence) )
        => last.parsed = None /\ last.stamp = None

\* the image was read and the region detector kept none of its contours
NoRegionsDetected ==
    /\ pc # "idle"
    /\ image.readable
    /\ _detect_stamp_regions(image.contours) = <<>>

\* C6: for every readable document in which the region detector finds zero
\* stamp regions, process_passport_image returns an empty sequence and
\* raises no error.
C6_NoRegionsGivesEmptyResult ==
    NoRegionsDetected => pc \in {"loop", "done"} /\ stamps = <<>>

C6_Witness ==
    /\ NoRegionsDetected
    /\ image.contours # <<>>
    /\ pc = "done"
    /\ stamps = <<>>

\* C8: when every recognition pass for a region fails, this is reported as
\* a processing failure for that region, distinguishable from the empty
\* result of a region without usable text.
C8_AllPassesFailedIsReported ==
    (last.done /\ last.raised = Len(configs)) => pc = "raised"

(***************************************************************************)
(* Properties of validate_stamp_data (SpecValidate)                        *)
(***************************************************************************)
\* C4: validate_stamp_data returns false for every candidate in which
\* entry_date and exit_date are both present and entry_date is later than
\* exit_date.
C4_EntryAfterExitIsRejected ==
    ( /\ v_result # None
      /\ v_stamp.entry_date # None
      /\ v_stamp.exit_date # None
      /\ DateAfter(v_stamp.entry_date[1], v_stamp.exit_date[1]) )
        => v_result = Some(FALSE)

C4_Witness ==
    /\ v_result = Some(FALSE)
    /\ v_stamp.entry_date # None
    /\ v_stamp.exit_date # None
    /\ DateAfter(v_stamp.entry_date[1], v_stamp.exit_date[1])
    /\ ~DateAfter(v_stamp.entry_date[1], v_clock[1])
    /\ ~DateAfter(v_stamp.exit_date[1], v_clock[2])

\* C5: validate_stamp_data returns false for every candidate whose
\* entry_date or exit_date is later than the current processing time, the
\* time being the clock reading the function takes when it tests the date.
C5_FutureDateIsRejected ==
    ( /\ v_result # None
      /\ \/ /\ v_stamp.entry_date # None
            /\ DateAfter(v_stamp.entry_date[1], v_clock[1])
         \/ /\ v_stamp.exit_date # None
            /\ DateAfter(v_stamp.exit_date[1], v_clock[2]) )
        => v_result = Some(FALSE)

C5_Witness ==
    /\ v_result = Some(FALSE)
    /\ v_stamp.entry_date # None
    /\ v_stamp.exit_date # None
    /\ ~DateAfter(v_stamp.entry_date[1], v_clock[1])
    /\ ~DateAfter(v_stamp.entry_date[1], v_stamp.exit_date[1])
    /\ DateAfter(v_stamp.exit_date[1], v_clock[2])

(***************************************************************************)
(* Properties of parse_flight_confirmation (SpecEmail)                     *)
(***************************************************************************)
\* neither subject nor body contains a confirmation keyword, whatever the
\* case of the letters
FailsClassification(e) ==
    \A n \in 1..Len(confirmation_keywords) :
        /\ ~Contains(str_lower(e.subject), str_lower(confirmation_keywords[n]))
        /\ ~Contains(str_lower(e.body), str_lower(confirmation_keywords[n]))

\* none of the five extraction patterns matches in the body
NoPatternMatches(e) ==
    \A p \in {"flight_number", "departure_date", "departure_time",
              "airport_code", "airline"} :
        re_search(p, e.body, TRUE) = None

Parsed == confirmation.kind \notin {"idle", "pending"}

\* C7: parse_flight_confirmation returns none for every email that fails
\* classification and for every email in which no extraction pattern
\* matches; a candidate is returned only when the email is classified as a
\* confirmation and some pattern matches.
C7_CandidateNeedsKeywordAndMatch ==
    Parsed =>
        /\ FailsClassification(email) => confirmation = NoConfirmation
        /\ NoPatternMatches(email) => confirmation = NoConfirmation
        /\ confirmation.kind = "candidate" =>
              ~FailsClassification(email) /\ ~NoPatternMatches(email)

C7_Witness ==
    /\ Parsed
    /\ FailsClassification(email)
    /\ ~NoPatternMatches(email)
    /\ confirmation = NoConfirmation

(***************************************************************************)
(* Properties of reconciliation and of the entry store (SpecTravel)        *)
(***************************************************************************)
\* the last operation reconciled two candidates of different sources that
\* name the same country and whose date windows overlap or lie within the
\* tolerance
ReconciledPair ==
    /\ last_op.name = "reconcile"
    /\ last_op.ok
    /\ Len(last_op.candidates) = 2
    /\ last_op.candidates[1].source # last_op.candidates[2].source
    /\ last_op.candidates[1].country = last_op.candidates[2].country
    /\ DayNumber(last_op.candidates[1].start)
          <= DayNumber(last_op.candidates[2]["end"]) + Tolerance
    /\ DayNumber(last_op.candidates[2].start)
          <= DayNumber(last_op.candidates[1]["end"]) + Tolerance

\* the entry carries the dates, the country and the confidence of w
CarriesScalarFields(entry, w) ==
    /\ entry.departure_date = Some(w.start)
    /\ entry.return_date = Some(w["end"])
    /\ entry.destination_country = Some(w.country)
    /\ entry.confidence_score = Some((w.confidence.num * 100)
                                         \div w.confidence.den)

C10_VerifiedEntriesAreKept ==
    [][ /\ \A id \in DOMAIN travel_entries :
             travel_entries[id].is_verified =>
                 /\ id \in DOMAIN travel_entries'
                 /\ travel_entries'[id] = travel_entries[id]
        /\ last_op'.name = "reconcile" =>
             /\ \A id \in DOMAIN travel_entries :
                   /\ id \in DOMAIN travel_entries'
                   /\ travel_entries'[id] = travel_entries[id]
             /\ \A id \in DOMAIN travel_entries' \ DOMAIN travel_entries :
                   ~travel_entries'[id].is_verified ]_vars

(***************************************************************************)
(* Properties of concurrent reconciliation (SpecConcurrent)                *)
(***************************************************************************)
\* C11: at no time are two reconciliation runs active for the same user; a
\* reconcile request that arrives while a run of that user is in progress
\* is refused with the contention error and touches neither the entries
\* nor the runs; runs of different users may overlap.
C11_RunsSerializedPerUser ==
    [][ /\ \A r1 \in active', r2 \in active' :
              r1.user = r2.user => r1 = r2
        /\ ( /\ req_count' = req_count + 1
             /\ \E r \in active : r.user = last_req'.user )
            => /\ last_req'.outcome = "contention"
               /\ travel_entries' = travel_entries
               /\ active' = active ]_vars

C11_Witness ==
    /\ last_req.outcome = "contention"
    /\ \E r1 \in active, r2 \in active : r1.user # r2.user

\* C12: every persisted TravelEntry satisfies departure_date <= return_date,
\* whatever sequence of create operations produced it.
C12_DepartureNotAfterReturn ==
    \A id \in DOMAIN travel_entries :
        /\ travel_entries[id].departure_date # None
        /\ travel_entries[id].return_date # None
        /\ ~DateAfter(travel_entries[id].departure_date[1],
                      travel_entries[id].return_date[1])

(***************************************************************************)
(* Properties of the field extractor (SpecParse)                           *)
(***************************************************************************)
\* the text "ENTRY USA LOS ANGELES 03/14/2023 LAX"
ScenarioStampText ==
    StampText(<<"E","N","T","R","Y">>, <<"U","S","A">>, <<"L","O","S"," ","A","N","G","E","L","E","S">>, <<"0","3","/","1","4","/","2","0","2","3">>, <<"L","A","X">>)

\* C13: for the text "ENTRY USA LOS ANGELES 03/14/2023 LAX" the field
\* extractor yields stamp_type "entry", entry_date 2023-03-14 and
\* airport_code "LAX".
C13_ScenarioStampFields ==
    (p_result.state = "done" /\ p_text = ScenarioStampText) =>
        /\ p_result.value # None
        /\ dict_get(p_result.value[1], "stamp_type") = Some("entry")
        /\ dict_get(p_result.value[1], "entry_date") = Some(Day(2023, 3, 14))
        /\ dict_get(p_result.value[1], "airport_code") = Some(<<"L","A","X">>)

(***************************************************************************)
(* Further properties of parse_flight_confirmation (SpecEmail)             *)
(***************************************************************************)
\* the parsed email has the subject "Your Delta Flight Confirmation" and a
\* body containing "DL 1234" and "03/14/2023"
ScenarioEmailParsed ==
    /\ Parsed
    /\ email.subject = S_confirmation
    /\ Contains(email.body, <<"D","L"," ","1","2","3","4">>)
    /\ Contains(email.body, <<"0","3","/","1","4","/","2","0","2","3">>)

\* C14: for an email with subject "Your Delta Flight Confirmation" and a
\* body containing "DL 1234" and "03/14/2023", parse_flight_confirmation
\* returns a candidate whose flight_number is "DL 1234" and whose airline
\* is "Delta".
C14_ScenarioEmailCandidate ==
    ScenarioEmailParsed =>
        /\ confirmation.kind = "candidate"
        /\ confirmation.value[1].flight_number = Some(PyStr(<<"D","L"," ","1","2","3","4">>))
        /\ confirmation.value[1].airline = Some(PyStr(<<"D","e","l","t","a">>))

MatchesMoreThanOnce(e) ==
    \E key \in DOMAIN EmailMatches(e.body) :
        Len(EmailMatches(e.body)[key]) > 1

\* the candidate's raw_data records every match of a pattern matching more
\* than once, and the single match of a pattern matching once
RecordsMatches(candidate, e) ==
    LET found == EmailMatches(e.body)
        raw == candidate.raw_data[1]
    IN  \A key \in DOMAIN found :
            /\ Len(found[key]) > 1 =>
                 /\ key \in DOMAIN raw
                 /\ raw[key] = Some(PyList(found[key]))
            /\ Len(found[key]) = 1 =>
                 /\ key \in DOMAIN raw
                 /\ raw[key] = Some(PyStr(found[key][1]))

\* C17: for an email that passes classification and in whose body some
\* pattern matches more than once, parse_flight_confirmation returns a
\* candidate, it does not fail, and the candidate records all matches of
\* that pattern and the single match of a pattern matching once.
C17_MultipleMatchesGiveCandidate ==
    (/\ Parsed
     /\ is_confirmation(email)
     /\ MatchesMoreThanOnce(email))
    => /\ confirmation.kind = "candidate"
       /\ RecordsMatches(confirmation.value[1], email)

(***************************************************************************)
(* Backend invocations of extract_passport_stamp_data (SpecExtract)        *)
(***************************************************************************)
\* C18: no recognition backend is retried: within one
\* extract_passport_stamp_data call the generative backend and the cloud
\* vision backend are each invoked at most once, whatever combination of
\* backend failures and non-JSON responses occurs.
C18_BackendsInvokedAtMostOnce ==
    /\ gemini_calls <= 1
    /\ vision_calls <= 1

(***************************************************************************)
(* Direction and date of the field extractor (SpecParse)                   *)
(***************************************************************************)
\* the stamp_type the text calls for: entry when it contains ENTRY or
\* ARRIVAL in any case, else exit when it contains EXIT or DEPARTURE, else
\* unknown
ExpectedStampType(text) ==
    IF \/ Contains(str_upper(text), W_ENTRY)
       \/ Contains(str_upper(text), W_ARRIVAL) THEN "entry"
    ELSE IF \/ Contains(str_upper(text), W_EXIT)
            \/ Contains(str_upper(text), W_DEPARTURE) THEN "exit"
    ELSE "unknown"

\* C19: the field extractor sets stamp_type to entry when the text contains
\* ENTRY or ARRIVAL (case-insensitive), to exit when it contains EXIT or
\* DEPARTURE, and to unknown otherwise; the first matched date is stored as
\* exit_date exactly when stamp_type is exit, and as entry_date when
\* stamp_type is entry or unknown.
C19_StampTypeAndDateKey ==
    p_result.state = "done" =>
        LET data == p_result.value[1]
            dates == re_findall("date", p_text, FALSE)
            date_key == IF data.stamp_type = Some("exit") THEN "exit_date"
                        ELSE "entry_date"
        IN  /\ p_result.value # None
            /\ data.stamp_type = Some(ExpectedStampType(p_text))
            /\ dates # <<>> =>
                 /\ DOMAIN data \cap {"entry_date", "exit_date"} = {date_key}
                 /\ data[date_key] = _parse_date(dates[1])
            /\ dates = <<>> =>
                 DOMAIN data \cap {"entry_date", "exit_date"} = {}

C19_Witness ==
    /\ p_result.state = "done"
    /\ p_result.value[1].stamp_type = Some("unknown")
    /\ "entry_date" \in DOMAIN p_result.value[1]
    /\ p_result.value[1].entry_date = Some(Day(2023, 3, 14))

(***************************************************************************)
(* The order of the date formats (SpecDate)                                *)
(***************************************************************************)
\* the number written in field k of the input
FieldNumber(k) == FieldValue(dt_input.fields[k], Len(dt_input.fields[k]))

\* year y, month m, day d is a date of the calendar
IsDate(y, m, d) ==
    /\ y >= 1
    /\ m \in 1..12
    /\ d >= 1
    /\ d <= DaysInMonth(y, m)

\* fields i and j are one or two digits and field k is n digits
Widths(i, j, k, n) ==
    /\ Len(dt_input.fields[i]) \in {1, 2}
    /\ Len(dt_input.fields[j]) \in {1, 2}
    /\ Len(dt_input.fields[k]) = n

\* the year the third field stands for under %Y (four digits) or %y
ThirdFieldYear ==
    IF Len(dt_input.fields[3]) = 4 THEN FieldNumber(3)
    ELSE CenturyYear(FieldNumber(3))

\* the slash date read month-first (MM/DD/YYYY or MM/DD/YY) is a date
MonthFirstReading ==
    /\ dt_input.fields # <<>>
    /\ dt_input.sep = "/"
    /\ Widths(1, 2, 3, 4) \/ Widths(1, 2, 3, 2)
    /\ IsDate(ThirdFieldYear, FieldNumber(1), FieldNumber(2))

\* the slash date read day-first (DD/MM/YYYY or DD/MM/YY) is a date
DayFirstReading ==
    /\ dt_input.fields # <<>>
    /\ dt_input.sep = "/"
    /\ Widths(1, 2, 3, 4) \/ Widths(1, 2, 3, 2)
    /\ IsDate(ThirdFieldYear, FieldNumber(2), FieldNumber(1))

\* the dash date read as YYYY-MM-DD is a date
YearFirstDashReading ==
    /\ dt_input.fields # <<>>
    /\ dt_input.sep = "-"
    /\ Widths(2, 3, 1, 4)
    /\ IsDate(FieldNumber(1), FieldNumber(2), FieldNumber(3))

\* the dash date read as DD-MM-YYYY is a date
DayFirstDashReading ==
    /\ dt_input.fields # <<>>
    /\ dt_input.sep = "-"
    /\ Widths(1, 2, 3, 4)
    /\ IsDate(FieldNumber(3), FieldNumber(2), FieldNumber(1))

\* C20: _parse_date tries MM/DD/YYYY, MM/DD/YY, DD/MM/YYYY, DD/MM/YY,
\* YYYY-MM-DD, DD-MM-YYYY in that order and returns the first that parses: a
\* slash date valid month-first and day-first is read month-first, the
\* day-first reading is used only when the month-first one fails, and none
\* is returned when no format parses.
C20_FirstFormatThatParsesWins ==
    dt_result.state = "done" =>
        /\ dt_result.value =
             IF MonthFirstReading
             THEN Some(Day(ThirdFieldYear, FieldNumber(1), FieldNumber(2)))
             ELSE IF DayFirstReading
             THEN Some(Day(ThirdFieldYear, FieldNumber(2), FieldNumber(1)))
             ELSE IF YearFirstDashReading
             THEN Some(Day(FieldNumber(1), FieldNumber(2), FieldNumber(3)))
             ELSE IF DayFirstDashReading
             THEN Some(Day(FieldNumber(3), FieldNumber(2), FieldNumber(1)))
             ELSE None
        /\ \A n \in 1..Len(date_formats) :
              (/\ strptime(dt_input.str, date_formats[n]) # None
               /\ \A k \in 1..(n - 1) :
                     strptime(dt_input.str, date_formats[k]) = None)
              => dt_result.value = strptime(dt_input.str, date_formats[n])

\* 03/12/2023, a date under both readings, is read as March 12
C20_Witness ==
    /\ dt_result.state = "done"
    /\ MonthFirstReading
    /\ DayFirstReading
    /\ FieldNumber(1) # FieldNumber(2)
    /\ dt_result.value = Some(Day(ThirdFieldYear, FieldNumber(1), FieldNumber(2)))

(***************************************************************************)
(* Dates written year first (SpecParse)                                    *)
(***************************************************************************)
\* the valid calendar date 14 March 2023 written as YYYY-MM-DD
IsoDateWord == <<"2","0","2","3","-","0","3","-","1","4">>

\* C21: for stamp text whose only date is a valid calendar date written as
\* YYYY-MM-DD, the date extracted by the field extractor (the date pattern
\* followed by _parse_date) equals that calendar date.
C21_IsoDateIsExtracted ==
    (p_result.state = "done" /\ Contains(p_text, IsoDateWord)) =>
        /\ p_result.value # None
        /\ \E k \in DOMAIN p_result.value[1] \cap {"entry_date", "exit_date"} :
              p_result.value[1][k] = Some(Day(2023, 3, 14))

(***************************************************************************)
(* The result selected by _process_stamp (SpecOCR)                         *)
(***************************************************************************)
\* a <= b on defined confidences
ConfAtMost(a, b) == ~IsNaN(a) /\ ~IsNaN(b) /\ a.num * b.den <= b.num * a.den

\* result i is one whose confidence is maximal: every defined confidence
\* among the results is at most its own
IsMaximal(results, i) ==
    \A j \in 1..Len(results) :
        ~IsNaN(results[j].confidence) =>
            ConfAtMost(results[j].confidence, results[i].confidence)

\* C22: the candidate emitted for a region carries the text of a
\* recognition result whose confidence is maximal among that region's
\* results, and the candidate's confidence equals that result's confidence
\* scaled to [0,1], with no other scoring applied.
C22_CandidateCarriesBestResult ==
    (last.done /\ last.stamp # None) =>
        \E i \in 1..Len(last.results) :
            /\ IsMaximal(last.results, i)
            /\ last.stamp[1].text = last.results[i].text
            /\ last.stamp[1].confidence = Over100(last.results[i].confidence)

(***************************************************************************)
(* Failures of a pass or of a backend (SpecRecognition)                    *)
(***************************************************************************)
\* C23: a failure of a single recognition pass or backend is absorbed: in
\* _process_stamp the remaining configurations still run and the result is
\* selected among the passes that succeeded, and in
\* extract_passport_stamp_data a failure of the generative backend alone
\* never propagates to the caller when the cloud vision backend succeeds.
C23_SingleFailureIsAbsorbed ==
    /\ pc = "raised" => ~image.readable
    /\ last.done =>
         /\ config = Len(configs) + 1
         /\ last.raised + Len(last.results) <= Len(configs)
         /\ last.stamp = _process_stamp(last.results).stamp
         /\ last.stamp # None =>
              \E i \in 1..Len(last.results) :
                  last.results[i].text = last.stamp[1].text
    /\ x_pc = "raised" =>
         /\ vision_calls >= 1
         /\ x_result.kind # "vision"
    /\ x_result.kind = "vision" => x_pc = "done"

\* a region with a failed pass, whose stamp comes from a later pass
C23_Witness ==
    /\ last.done
    /\ last.raised > 0
    /\ last.stamp # None
    /\ last.results[1].config # configs[1]

(***************************************************************************)
(* Boxes on the limits of the region filter (SpecDetect)                   *)
(***************************************************************************)
\* width in [50,300], height in [30,150], width/height in [1.5,5.0]
WithinInclusiveLimits(c) ==
    /\ 50 <= c.w /\ c.w <= 300
    /\ 30 <= c.h /\ c.h <= 150
    /\ 15 * c.h <= 10 * c.w
    /\ c.w <= 5 * c.h

\* C24: the region detector keeps every contour bounding box whose width is
\* in [50,300], height in [30,150] and width/height in [1.5,5.0], with all
\* bounds inclusive (for example a 300x150 box or a box of width exactly 50).
C24_InclusiveLimitsAreKept ==
    d_state = "done" =>
        \A j \in 1..Len(d_contours) :
            WithinInclusiveLimits(d_contours[j]) =>
                \E i \in 1..Len(d_regions) : d_regions[i] = d_contours[j]

(***************************************************************************)
(* The order of the cloud backends (SpecExtract)                           *)
(***************************************************************************)
\* C25: in the cloud extraction fallback chain the cloud vision backend is
\* tried before the generative backend: the generative backend is invoked
\* only after cloud vision was invoked and failed to produce a result.
C25_VisionBeforeGenerative ==
    gemini_calls >= 1 =>
        /\ vision_calls >= 1
        /\ x_result.kind # "vision"

(***************************************************************************)
(* The reasons for which validate_stamp_data rejects (SpecValidate)        *)
(***************************************************************************)
\* the candidate has a country: the field is set and is not the empty string
HasCountry(stamp) == stamp.country # None /\ stamp.country[1] # <<>>

HasDate(stamp) == stamp.entry_date # None \/ stamp.exit_date # None

\* a date of the candidate is later than the clock reading it is tested with
HasFutureDate(stamp, clock) ==
    \/ stamp.entry_date # None /\ DateAfter(stamp.entry_date[1], clock[1])
    \/ stamp.exit_date # None /\ DateAfter(stamp.exit_date[1], clock[2])

EntryAfterExit(stamp) ==
    /\ stamp.entry_date # None
    /\ stamp.exit_date # None
    /\ DateAfter(stamp.entry_date[1], stamp.exit_date[1])

\* C26: validate_stamp_data returns false when entry_date, exit_date and
\* country are all absent, and returns true for every candidate that has a
\* date or a country, has no date in the future and does not have entry_date
\* later than exit_date (no other reason for rejection exists).
C26_OnlyThreeReasonsReject ==
    v_result # None =>
        /\ (~HasDate(v_stamp) /\ ~HasCountry(v_stamp)) => v_result = Some(FALSE)
        /\ (/\ HasDate(v_stamp) \/ HasCountry(v_stamp)
            /\ ~HasFutureDate(v_stamp, v_clock)
            /\ ~EntryAfterExit(v_stamp)) => v_result = Some(TRUE)

\* a candidate with a date and no country is accepted
C26_Witness ==
    /\ v_result = Some(TRUE)
    /\ HasDate(v_stamp)
    /\ ~HasCountry(v_stamp)

(***************************************************************************)
(* Dates of the candidates of the local pipeline (SpecOCR)                 *)
(***************************************************************************)
\* C27: no candidate produced by the local field extractor
\* (_parse_stamp_text via _process_stamp) has both entry_date and exit_date
\* set, so for these candidates the validator's entry_date > exit_date
\* rejection can never fire.
C27_NeverBothDates ==
    /\ \A i \in 1..Len(stamps) :
          /\ stamps[i].entry_date = None \/ stamps[i].exit_date = None
          /\ ~EntryAfterExit(stamps[i])
    /\ last.stamp # None =>
          last.stamp[1].entry_date = None \/ last.stamp[1].exit_date = None

\* a returned candidate with a date, which is its exit_date
C27_Witness ==
    /\ pc = "done"
    /\ stamps # <<>>
    /\ stamps[1].exit_date # None
    /\ stamps[1].entry_date = None

(***************************************************************************)
(* Requests that fail before processing (SpecRouter)                       *)
(***************************************************************************)
\* C28: a POST /process/{image_id} request whose authentication fails, or
\* whose image is not found for the authenticated user, issues no update to
\* the stored record of image_id: the image's processing status and stored
\* stamp results are left unchanged.
C28_FailedRequestLeavesRecord ==
    rq.outcome \in {"auth_failed", "not_found"} =>
        /\ rq.updates = <<>>
        /\ passport_images = rq.before[1]

(***************************************************************************)
(* The local and the cloud parser on the same text (SpecCompare)           *)
(***************************************************************************)
\* the calendar date of a local date field, written as the cloud parser
\* writes its dates
LocalDateString(data, key) ==
    IF dict_get(data, key) = None THEN None
    ELSE Some(strftime(dict_get(data, key)[1]))

\* C29: for every input text the local field extractor (_parse_stamp_text)
\* and the cloud fallback parser (_parse_stamp_text_vision) agree: they
\* yield the same stamp_type, country and airport_code, and the same
\* calendar date on the same side (entry_date or exit_date) for the first
\* date matched in the text.
C29_ParsersAgree ==
    cmp_state = "both" =>
        /\ cmp_local # None
        /\ dict_get(cmp_local[1], "stamp_type") = cmp_vision[1].stamp_type
        /\ dict_get(cmp_local[1], "country") = cmp_vision[1].country
        /\ dict_get(cmp_local[1], "airport_code") = cmp_vision[1].airport_code
        /\ LocalDateString(cmp_local[1], "entry_date") = cmp_vision[1].entry_date
        /\ LocalDateString(cmp_local[1], "exit_date") = cmp_vision[1].exit_date

(***************************************************************************)
(* The confidence of a returned stamp (SpecOCR)                            *)
(***************************************************************************)
\* C30: every stamp returned by _process_stamp has a defined confidence
\* within [OCR_CONFIDENCE_THRESHOLD, 1.0], including when a recognition pass
\* returns non-empty text but no word with a positive confidence value.
C30_ConfidenceDefinedAndInRange ==
    (last.done /\ last.stamp # None) =>
        /\ ~IsNaN(last.stamp[1].confidence)
        /\ ConfAtMost(OCR_CONFIDENCE_THRESHOLD, last.stamp[1].confidence)
        /\ ConfAtMost(last.stamp[1].confidence, Rational(1, 1))

=============================================================================
